---- MODULE Spec2Model ----
(***************************************************************************)
(* Model of the pix-jira MCP server: the JIRA REST client with its error   *)
(* mapping (lib/jira-client.ts), the get_issue and analyze_ticket tool     *)
(* handlers (tools/get-issue.ts, tools/analyze-ticket.ts) and the          *)
(* analyze-ticket prompt (prompts/analyze-ticket.ts).                      *)
(*                                                                         *)
(* Texts are TLA+ strings built with \o, exactly as the code builds them.  *)
(* Issue keys and the base URL are sequences of one-character strings, so  *)
(* that the regular expression, trim() and toUpperCase() are computed      *)
(* character by character.                                                 *)
(***************************************************************************)
EXTENDS Integers, Sequences, FiniteSets, TLC

VARIABLES server, inv, fmt

vars == <<server, inv, fmt>>

(***************************************************************************)
(* Characters and strings                                                  *)
(***************************************************************************)
UpperLetters ==
  <<"A","B","C","D","E","F","G","H","I","J","K","L","M",
    "N","O","P","Q","R","S","T","U","V","W","X","Y","Z">>

LowerLetters ==
  <<"a","b","c","d","e","f","g","h","i","j","k","l","m",
    "n","o","p","q","r","s","t","u","v","w","x","y","z">>

Digits == {"0","1","2","3","4","5","6","7","8","9"}

WhiteSpace == {" ", "\t", "\n", "\r"}

Range(s) == {s[k] : k \in DOMAIN s}

\* The text of a sequence of characters (or of strings): its elements concatenated.
RECURSIVE Concat(_)
Concat(s) == IF s = <<>> THEN "" ELSE Head(s) \o Concat(Tail(s))

\* Array.prototype.join(sep) on an array of strings.
RECURSIVE JoinWith(_, _)
JoinWith(s, sep) ==
  IF s = <<>> THEN ""
  ELSE IF Len(s) = 1 THEN s[1]
  ELSE s[1] \o sep \o JoinWith(Tail(s), sep)

\* undefined, and a defined value, for optional fields such as statusCode.
Undefined == [defined |-> FALSE]

Some(v) == [defined |-> TRUE, value |-> v]

(***************************************************************************)
(* Argument validation and normalisation (tools/get-issue.ts)              *)
(***************************************************************************)
\* /^[A-Z]+-\d+$/ on a sequence of characters.
MatchesIssueKeyPattern_Unanchored(s) ==
  \E d \in 2..(Len(s) - 1) :
    /\ s[d] = "-"
    /\ \A k \in 1..(d - 1) : s[k] \in Range(UpperLetters)
    /\ s[d + 1] \in Digits

MatchesIssueKeyPattern(s) ==
  \E d \in 2..(Len(s) - 1) :
    /\ s[d] = "-"
    /\ \A k \in 1..(d - 1) : s[k] \in Range(UpperLetters)
    /\ \A k \in (d + 1)..Len(s) : s[k] \in Digits

\* String.prototype.trim()
RECURSIVE TrimStart(_)
TrimStart(s) ==
  IF s # <<>> /\ Head(s) \in WhiteSpace THEN TrimStart(Tail(s)) ELSE s

RECURSIVE TrimEnd(_)
TrimEnd(s) ==
  IF s # <<>> /\ s[Len(s)] \in WhiteSpace THEN TrimEnd(SubSeq(s, 1, Len(s) - 1)) ELSE s

Trim(s) == TrimEnd(TrimStart(s))

\* String.prototype.toUpperCase() on the ASCII letters.
UpperOf(c) ==
  IF \E k \in 1..26 : LowerLetters[k] = c
  THEN UpperLetters[CHOOSE k \in 1..26 : LowerLetters[k] = c]
  ELSE c

ToUpperCase(s) == [k \in DOMAIN s |-> UpperOf(s[k])]

normalizeIssueKey(issueKey) == ToUpperCase(Trim(issueKey))

\* JavaScript values of the argument object handed to a handler.
JsUndefined == [type |-> "undefined"]

JsString(chars) == [type |-> "string", chars |-> chars]

JsNumber(n) == [type |-> "number", num |-> n]

JsBoolean(b) == [type |-> "boolean", bool |-> b]

\* issueKeySchema: z.string().regex(/^[A-Z]+-\d+$/)
issueKeySchema_NoRegex(v) == v.type = "string"

issueKeySchema(v) == v.type = "string" /\ MatchesIssueKeyPattern(v.chars)

\* includeCommentsSchema: z.boolean().optional().default(true)
includeCommentsSchema(v) == v.type \in {"undefined", "boolean"}

includeCommentsValue_DefaultsToFalse(v) == IF v.type = "boolean" THEN v.bool ELSE FALSE

includeCommentsValue(v) == IF v.type = "boolean" THEN v.bool ELSE TRUE

\* getIssueArgsSchema.safeParse: success, and the validated arguments.
getIssueArgsSchema(args) ==
  IF issueKeySchema(args.issueKey) /\ includeCommentsSchema(args.includeComments)
  THEN [success |-> TRUE,
        issueKey |-> args.issueKey.chars,
        includeComments |-> includeCommentsValue(args.includeComments)]
  ELSE [success |-> FALSE]

\* analyzeTicketArgsSchema: issueKey alone; z.object strips the other keys.
analyzeTicketArgsSchema(args) ==
  IF issueKeySchema(args.issueKey)
  THEN [success |-> TRUE, issueKey |-> args.issueKey.chars]
  ELSE [success |-> FALSE]

STANDARD_ISSUE_FIELDS ==
  <<"summary", "description", "status", "assignee", "reporter", "priority",
    "created", "updated", "labels", "fixVersions", "issuetype", "project",
    "parent", "issuelinks", "customfield_*">>

ISSUE_FIELDS_TO_FETCH ==
  <<"summary", "description", "status", "assignee", "priority", "labels",
    "issuetype", "parent", "issuelinks", "customfield_*">>

\* buildFetchOptions, the module's array holding standardFields: fields is a
\* copy of it, with 'comment' pushed when includeComments is true.
buildFetchOptionsOf(standardFields, includeComments) ==
  IF includeComments
  THEN [fields |-> Append(standardFields, "comment"),
        expand |-> <<"renderedFields">>]
  ELSE [fields |-> standardFields, expand |-> <<>>]

buildFetchOptions(includeComments) ==
  buildFetchOptionsOf(STANDARD_ISSUE_FIELDS, includeComments)

standardFieldsAfter_PushesOnShared(standardFields, includeComments) ==
  IF includeComments THEN Append(standardFields, "comment") ELSE standardFields

\* The module's array after a call of buildFetchOptions: the push goes to the
\* copy [...STANDARD_ISSUE_FIELDS], the array itself is not written.
standardFieldsAfter(standardFields, includeComments) == standardFields

(***************************************************************************)
(* The JIRA client (lib/jira-client.ts)                                    *)
(***************************************************************************)
\* url.replace(/\/$/, '')
normalizeBaseUrl_KeepsSlash(url) == url

normalizeBaseUrl(url) ==
  IF url # <<>> /\ url[Len(url)] = "/" THEN SubSeq(url, 1, Len(url) - 1) ELSE url

\* Buffer.from(credentials).toString('base64'), on the credentials of the
\* modelled configurations.
Base64(credentials) ==
  CASE credentials = "bot@pix.fr:secret" -> "Ym90QHBpeC5mcjpzZWNyZXQ="
    [] OTHER -> "?"

createAuthHeader(email, apiToken) == "Basic " \o Base64(Concat(email) \o ":" \o Concat(apiToken))

\* new JiraClient(config): the two private fields.
NewJiraClient(config) ==
  [baseUrl |-> normalizeBaseUrl(config.jiraBaseUrl),
   authHeader |-> createAuthHeader(config.jiraEmail, config.jiraApiToken)]

\* URLSearchParams.toString() of one value: ',' is written %2C, the letters,
\* digits, '_' and '*' of the field names are kept.
EncodeList(names) == JoinWith(names, "%2C")

buildIssueEndpoint_AlwaysAppends(issueKey, fields, expand) ==
  "/rest/api/3/issue/" \o Concat(issueKey)
    \o "?fields=" \o EncodeList(fields) \o "&expand=" \o EncodeList(expand)

buildIssueEndpoint(issueKey, fields, expand) ==
  LET params ==
        (IF Len(fields) > 0 THEN <<"fields=" \o EncodeList(fields)>> ELSE <<>>)
        \o (IF Len(expand) > 0 THEN <<"expand=" \o EncodeList(expand)>> ELSE <<>>)
      queryString == JoinWith(params, "&")
  IN "/rest/api/3/issue/" \o Concat(issueKey)
       \o (IF queryString # "" THEN "?" \o queryString ELSE "")

\* new JiraApiException(message, statusCode, details)
JiraApiException(message, statusCode, details) ==
  [name |-> "JiraApiException", message |-> message,
   statusCode |-> statusCode, details |-> details]

\* Other thrown values: an Error (TypeError, SyntaxError, ...) and a non-Error.
ErrorObject(name, message) == [name |-> name, message |-> message]

ThrownValue(text) == [name |-> "", thrown |-> text]

IsJiraApiException(e) == e.name = "JiraApiException"

IsError(e) == e.name # ""

ConnectivityMessage ==
  "Failed to connect to JIRA. Please check your network connection and JIRA URL."

handleRequestError_LeaksCause(error) ==
  IF IsJiraApiException(error) THEN error
  ELSE JiraApiException("Failed to connect to JIRA: " \o error.message, Undefined, Some(error))

handleRequestError_NoDetails(error) ==
  IF IsJiraApiException(error) THEN error
  ELSE JiraApiException(ConnectivityMessage, Undefined, Undefined)

\* handleRequestError: the exception the request rejects with.
handleRequestError(error) ==
  IF IsJiraApiException(error) THEN error
  ELSE JiraApiException(ConnectivityMessage, Undefined, Some(error))

DigitText(d) ==
  CASE d = 0 -> "0" [] d = 1 -> "1" [] d = 2 -> "2" [] d = 3 -> "3" [] d = 4 -> "4"
    [] d = 5 -> "5" [] d = 6 -> "6" [] d = 7 -> "7" [] d = 8 -> "8" [] d = 9 -> "9"

\* String(n) of a natural number, as a template literal writes it.
RECURSIVE NumberText(_)
NumberText(n) == IF n < 10 THEN DigitText(n) ELSE NumberText(n \div 10) \o DigitText(n % 10)

DefaultMessage(status) == "JIRA API request failed with status " \o NumberText(status)

\* parseJiraErrorData on the parsed body: the value returned, or threw = TRUE
\* when the property access raises a TypeError (the body is null).
parseJiraErrorData(errorData) ==
  IF errorData.json = "null" THEN [threw |-> TRUE]
  ELSE IF errorData.errorMessages.kind = "array" /\ Len(errorData.errorMessages.items) > 0
       THEN [threw |-> FALSE, isNull |-> FALSE,
             text |-> JoinWith(errorData.errorMessages.items, ", ")]
  ELSE IF errorData.errors.kind = "object"
       THEN [threw |-> FALSE, isNull |-> FALSE,
             text |-> JoinWith([k \in DOMAIN errorData.errors.entries |->
                                  errorData.errors.entries[k][1] \o ": "
                                    \o errorData.errors.entries[k][2]], ", ")]
  ELSE [threw |-> FALSE, isNull |-> TRUE]

extractErrorMessage_StatusTextFallback(status, statusText, body) ==
  LET defaultMessage == DefaultMessage(status)
      parsed == parseJiraErrorData(body.data)
  IN IF body.isJson /\ ~parsed.threw /\ ~parsed.isNull /\ parsed.text # "" THEN parsed.text
     ELSE IF statusText # "" THEN statusText ELSE defaultMessage

\* extractErrorMessage(response), the body being read with response.json().
extractErrorMessage(status, statusText, body) ==
  LET defaultMessage == DefaultMessage(status)
      parsed == parseJiraErrorData(body.data)
  IN IF body.isJson /\ ~parsed.threw
     THEN IF ~parsed.isNull /\ parsed.text # "" THEN parsed.text ELSE defaultMessage
     ELSE IF statusText # "" THEN statusText ELSE defaultMessage

MappedStatuses == {401, 403, 404, 429, 500, 502, 503}

errorMessages(statusCode) ==
  CASE statusCode = 401 -> "Authentication failed. Please check your JIRA email and API token."
    [] statusCode = 403 -> "Access denied. You do not have permission to access this resource."
    [] statusCode = 404 -> "The requested JIRA issue was not found."
    [] statusCode = 429 -> "Rate limit exceeded. Please try again later."
    [] statusCode \in {500, 502, 503} ->
         "JIRA service is currently unavailable. Please try again later."

createUserFriendlyException_BodyFirst(statusCode, defaultMessage) ==
  JiraApiException(
    IF statusCode \in MappedStatuses /\ defaultMessage = DefaultMessage(statusCode)
      THEN errorMessages(statusCode) ELSE defaultMessage,
    Some(statusCode), Undefined)

createUserFriendlyException(statusCode, defaultMessage) ==
  JiraApiException(
    IF statusCode \in MappedStatuses THEN errorMessages(statusCode) ELSE defaultMessage,
    Some(statusCode), Undefined)

\* handleErrorResponse: the exception thrown for a response that is not ok.
handleErrorResponse(status, statusText, body) ==
  createUserFriendlyException(status, extractErrorMessage(status, statusText, body))

(***************************************************************************)
(* JSON values of a response body                                          *)
(***************************************************************************)
\* Display strings of the issue are TLA+ strings.
JsNull == [type |-> "null"]

JsText(t) == [type |-> "string", text |-> t]

JsNum(n) == [type |-> "number", num |-> n]

\* An object read through its 'value' and 'name' properties.
JsNamed(hasValue, value, hasName, name) ==
  [type |-> "object", hasValue |-> hasValue, value |-> value,
   hasName |-> hasName, name |-> name]

JsArray(items) == [type |-> "array", items |-> items]

\* An Atlassian Document Format node {type, text?, content?}.
AdfNode(nodeType, text, content) ==
  [type |-> "adf", nodeType |-> nodeType, text |-> text, content |-> content]

\* JavaScript truthiness.
Truthy(v) ==
  CASE v.type \in {"null", "undefined"} -> FALSE
    [] v.type = "string" -> v.text # ""
    [] v.type = "number" -> v.num # 0
    [] v.type = "boolean" -> v.bool
    [] OTHER -> TRUE

\* String(v), as a template literal or Array.prototype.join writes a value.
RECURSIVE ToText(_)
ToText(v) ==
  CASE v.type = "string" -> v.text
    [] v.type = "number" -> NumberText(v.num)
    [] v.type = "null" -> "null"
    [] v.type = "undefined" -> "undefined"
    [] v.type = "boolean" -> IF v.bool THEN "true" ELSE "false"
    [] v.type = "array" -> JoinWith([k \in DOMAIN v.items |->
                              IF v.items[k].type \in {"null", "undefined"} THEN ""
                              ELSE ToText(v.items[k])], ",")
    [] OTHER -> "[object Object]"

\* sequence.filter(Boolean) on a sequence of strings.
RECURSIVE FilterNonEmpty(_)
FilterNonEmpty(s) ==
  IF s = <<>> THEN <<>>
  ELSE IF Head(s) = "" THEN FilterNonEmpty(Tail(s))
  ELSE <<Head(s)>> \o FilterNonEmpty(Tail(s))

\* fields[name] of the custom fields, kept in the order of the JSON object.
RECURSIVE FieldValue(_, _)
FieldValue(custom, name) ==
  IF custom = <<>> THEN [type |-> "undefined"]
  ELSE IF Head(custom).name = name THEN Head(custom).value
  ELSE FieldValue(Tail(custom), name)

(***************************************************************************)
(* The issue formatter (lib/issue-formatter.ts)                            *)
(***************************************************************************)
RECENT_COMMENTS_LIMIT == 3

EQUIPIX == "customfield_10253"

APPLI_PIX == "customfield_10117"

DEVELOPMENT == "customfield_10000"

RESOLUTION_SEMESTER == "customfield_10257"

\* new Date(ts).toLocaleString() and toLocaleDateString(), locale en-US, UTC,
\* on the timestamps of the modelled issues.
toLocaleString(ts) ==
  CASE ts = "2025-01-01T10:00:00.000Z" -> "1/1/2025, 10:00:00 AM"
    [] ts = "2025-01-02T15:30:00.000Z" -> "1/2/2025, 3:30:00 PM"
    [] ts = "2025-01-03T09:00:00.000Z" -> "1/3/2025, 9:00:00 AM"
    [] ts = "2025-01-04T09:00:00.000Z" -> "1/4/2025, 9:00:00 AM"
    [] OTHER -> "Invalid Date"

toLocaleDateString(ts) ==
  CASE ts = "2025-01-01T10:00:00.000Z" -> "1/1/2025"
    [] ts = "2025-01-02T15:30:00.000Z" -> "1/2/2025"
    [] ts = "2025-01-03T09:00:00.000Z" -> "1/3/2025"
    [] ts = "2025-01-04T09:00:00.000Z" -> "1/4/2025"
    [] OTHER -> "Invalid Date"

formatIssueHeader(issue) == "# " \o issue.key \o ": " \o issue.fields.summary \o "\n"

formatBasicInformation(fields) ==
  JoinWith(<<"## Basic Information",
             "",
             "- **Status**: " \o fields.status.name \o " ("
               \o fields.status.statusCategory.name \o ")",
             "- **Type**: " \o fields.issuetype.name,
             "- **Priority**: " \o fields.priority.name,
             "- **Project**: " \o fields.project.name \o " (" \o fields.project.key \o ")",
             "">>, "\n")

formatPeopleSection(fields) ==
  LET assigneeName ==
        IF fields.assignee.defined THEN fields.assignee.value.displayName ELSE "Unassigned"
  IN JoinWith(<<"## People",
                "",
                "- **Assignee**: " \o assigneeName,
                "- **Reporter**: " \o fields.reporter.displayName,
                "">>, "\n")

formatParentIssueSection(fields) ==
  IF ~fields.parent.defined THEN ""
  ELSE JoinWith(<<"## Parent Issue",
                  "",
                  "- **" \o fields.parent.value.key \o "**: "
                    \o fields.parent.value.fields.summary,
                  "- **Type**: " \o fields.parent.value.fields.issuetype.name,
                  "">>, "\n")

\* extractTextFromADF. The test of Array.isArray(adf.content) comes first, so
\* a paragraph's children are joined as any other node's.
RECURSIVE extractTextFromADF(_)
extractTextFromADF(adf) ==
  IF adf.type # "adf" THEN ""
  ELSE IF adf.content.defined
    THEN JoinWith(FilterNonEmpty([k \in DOMAIN adf.content.value |->
                                    extractTextFromADF(adf.content.value[k])]), "\n\n")
  ELSE IF adf.nodeType = "text" /\ adf.text.defined /\ adf.text.value # ""
    THEN adf.text.value
  ELSE ""

formatDescription(description) ==
  IF description.type = "string" THEN description.text
  ELSE IF description.type \in {"object", "array", "adf"}
    THEN LET extractedText == extractTextFromADF(description)
         IN IF extractedText # "" THEN extractedText
            ELSE "[Complex formatted content - view in JIRA]"
  ELSE "[No description]"

formatDescriptionSection_NonNull(fields) ==
  IF fields.description.type \in {"null", "undefined"} THEN ""
  ELSE JoinWith(<<"## Description", "", formatDescription(fields.description), "">>, "\n")

formatDescriptionSection(fields) ==
  IF ~Truthy(fields.description) THEN ""
  ELSE JoinWith(<<"## Description", "", formatDescription(fields.description), "">>, "\n")

formatLabelsSection(fields) ==
  IF ~fields.labels.defined \/ Len(fields.labels.value) = 0 THEN ""
  ELSE "## Labels\n\n"
         \o JoinWith([k \in DOMAIN fields.labels.value |-> "- " \o fields.labels.value[k]],
                     "\n")
         \o "\n"

\* The check mark and the circle of the release status are written '+' and 'o'.
formatFixVersionsSection(fields) ==
  IF ~fields.fixVersions.defined \/ Len(fields.fixVersions.value) = 0 THEN ""
  ELSE LET versions == fields.fixVersions.value
           line(version) ==
             "- " \o version.name \o " "
               \o (IF version.released THEN "+ Released" ELSE "o Unreleased")
               \o (IF version.releaseDate.defined /\ version.releaseDate.value # ""
                   THEN " (" \o version.releaseDate.value \o ")" ELSE "")
       IN JoinWith(<<"## Fix Versions", "">>
                     \o [k \in DOMAIN versions |-> line(versions[k])]
                     \o <<"">>, "\n")

RECURSIVE RelatedIssueLines(_)
RelatedIssueLines(links) ==
  IF links = <<>> THEN <<>>
  ELSE LET link == Head(links)
       IN (IF link.outwardIssue.defined
           THEN <<"- **" \o link.type.outward \o "**: " \o link.outwardIssue.value.key
                    \o " - " \o link.outwardIssue.value.fields.summary>>
           ELSE <<>>)
          \o (IF link.inwardIssue.defined
              THEN <<"- **" \o link.type.inward \o "**: " \o link.inwardIssue.value.key
                       \o " - " \o link.inwardIssue.value.fields.summary>>
              ELSE <<>>)
          \o RelatedIssueLines(Tail(links))

formatRelatedIssuesSection(fields) ==
  IF ~fields.issuelinks.defined \/ Len(fields.issuelinks.value) = 0 THEN ""
  ELSE JoinWith(<<"## Related Issues", "">>
                  \o RelatedIssueLines(fields.issuelinks.value)
                  \o <<"">>, "\n")

\* The value an element of a multi-select contributes: its 'value', else its
\* 'name', else itself when a string, else null.
ArrayItemValue(item) ==
  IF item.type = "object" /\ item.hasValue THEN item.value
  ELSE IF item.type = "object" /\ item.hasName THEN item.name
  ELSE IF item.type = "string" THEN item
  ELSE JsNull

RECURSIVE FilterTruthy(_)
FilterTruthy(s) ==
  IF s = <<>> THEN <<>>
  ELSE IF Truthy(Head(s)) THEN <<Head(s)>> \o FilterTruthy(Tail(s))
  ELSE FilterTruthy(Tail(s))

\* extractArrayFieldValue(values), values being an array.
extractArrayFieldValue(values) ==
  LET names == FilterTruthy([k \in DOMAIN values.items |-> ArrayItemValue(values.items[k])])
  IN IF Len(names) > 0
     THEN JsText(JoinWith([k \in DOMAIN names |-> ToText(names[k])], ", "))
     ELSE JsNull

\* values.map raises a TypeError when values is not an array.
extractArrayFieldValueThrows(values) == values.type # "array"

extractCustomFieldValue(value) ==
  IF value.type = "object" /\ value.hasValue THEN value.value
  ELSE IF value.type = "object" /\ value.hasName THEN value.name
  ELSE IF value.type \in {"string", "number"} THEN JsText(ToText(value))
  ELSE IF value.type = "array" THEN extractArrayFieldValue(value)
  ELSE JsNull

\* extractDevelopmentInfo(devData). A string that carries development data is
\* modelled with what the two regular expressions and JSON.parse find in it:
\* dev.count (the digits after "repository={count="), dev.json ("none": no
\* match, "invalid": JSON.parse throws, "empty": no repository.overall,
\* "overall": one with dev.overallCount and dev.lastUpdated).
extractDevelopmentInfo(devData) ==
  IF devData.type # "string" THEN JsNull
  ELSE IF "dev" \notin DOMAIN devData THEN JsNull
  ELSE IF devData.dev.count.defined
    THEN JsText(devData.dev.count.value \o " repository/repositories linked")
  ELSE IF devData.dev.json = "invalid"
    THEN JsText("Development info available (view in JIRA)")
  ELSE IF devData.dev.json = "overall"
    THEN JsText(NumberText(devData.dev.overallCount)
                  \o " repository/repositories, last updated "
                  \o toLocaleDateString(devData.dev.lastUpdated))
  ELSE JsNull

\* The generic strategy: an entry for every custom field, keyed by its id.
RECURSIVE GenericEntries(_)
GenericEntries(custom) ==
  IF custom = <<>> THEN <<>>
  ELSE (IF Truthy(extractCustomFieldValue(Head(custom).value))
        THEN <<[key |-> Head(custom).name,
                value |-> extractCustomFieldValue(Head(custom).value)]>>
        ELSE <<>>)
       \o GenericEntries(Tail(custom))

extractCustomFields_Generic(fields) == GenericEntries(fields.custom)

\* extractCustomFields(fields): the entries of the record, in insertion order.
extractCustomFields(fields) ==
  LET entry(label, raw, extracted) ==
        IF Truthy(raw) /\ Truthy(extracted)
        THEN <<[key |-> label, value |-> extracted]>> ELSE <<>>
      equipix == FieldValue(fields.custom, EQUIPIX)
      appliPix == FieldValue(fields.custom, APPLI_PIX)
      development == FieldValue(fields.custom, DEVELOPMENT)
      semester == FieldValue(fields.custom, RESOLUTION_SEMESTER)
  IN (IF Truthy(equipix)
      THEN entry("Equipe Pix", equipix, extractArrayFieldValue(equipix)) ELSE <<>>)
     \o entry("Appli Pix", appliPix, extractCustomFieldValue(appliPix))
     \o entry("Development", development, extractDevelopmentInfo(development))
     \o entry("Resolution Semester", semester, extractCustomFieldValue(semester))

formatCustomFieldsSection(fields) ==
  LET customFields == extractCustomFields(fields)
  IN IF Len(customFields) = 0 THEN ""
     ELSE JoinWith(<<"## Pix Custom Fields", "">>
                     \o [k \in DOMAIN customFields |->
                           "- **" \o customFields[k].key \o "**: "
                             \o ToText(customFields[k].value)]
                     \o <<"">>, "\n")

SliceFirst(s, n) == IF Len(s) <= n THEN s ELSE SubSeq(s, 1, n)

\* comments.slice(-RECENT_COMMENTS_LIMIT)
SliceLast(s, n) == IF Len(s) <= n THEN s ELSE SubSeq(s, Len(s) - n + 1, Len(s))

RECURSIVE CommentLines(_)
CommentLines(comments) ==
  IF comments = <<>> THEN <<>>
  ELSE LET comment == Head(comments)
       IN <<"**" \o comment.author.displayName \o "** ("
              \o toLocaleDateString(comment.created) \o "):",
            formatDescription(comment.body),
            "">>
          \o CommentLines(Tail(comments))

formatCommentsSection(fields) ==
  IF ~fields.comment.defined \/ fields.comment.value.total = 0 THEN ""
  ELSE LET comment == fields.comment.value
       IN JoinWith(<<"## Comments", "", "Total comments: " \o NumberText(comment.total)>>
                     \o (IF Len(comment.comments) > 0
                         THEN <<"", "### Recent Comments:", "">>
                                \o CommentLines(SliceLast(comment.comments,
                                                          RECENT_COMMENTS_LIMIT))
                         ELSE <<>>)
                     \o <<"">>, "\n")

formatTimelineSection(fields) ==
  JoinWith(<<"## Timeline",
             "",
             "- **Created**: " \o toLocaleString(fields.created),
             "- **Updated**: " \o toLocaleString(fields.updated),
             "">>, "\n")

\* issue.self.replace('/rest/api/3/issue/', '/browse/'): self is kept as the
\* text before the API path segment and the text after it.
browseUrlOf(self) ==
  IF self.hasApiPath THEN self.before \o "/browse/" \o self.after
  ELSE self.before

formatIssueLink(issue) == "**View in JIRA**: " \o browseUrlOf(issue.self)

\* Whether formatIssue(issue) raises a TypeError: the body is null or has no
\* 'fields', or the team field is set to something that is not an array.
formatIssueThrows(issue) ==
  \/ issue.json = "null"
  \/ ~issue.isIssue
  \/ LET equipix == FieldValue(issue.fields.custom, EQUIPIX)
     IN Truthy(equipix) /\ extractArrayFieldValueThrows(equipix)

formatIssueError(issue) ==
  IF issue.json = "null"
    THEN ErrorObject("TypeError", "Cannot read properties of null (reading 'key')")
  ELSE IF ~issue.isIssue
    THEN ErrorObject("TypeError", "Cannot read properties of undefined (reading 'summary')")
  ELSE ErrorObject("TypeError", "values.map is not a function")

formatIssue_RuleBeforeLinkOnly(issue) ==
  LET sections ==
        <<formatIssueHeader(issue),
          formatBasicInformation(issue.fields),
          formatPeopleSection(issue.fields),
          formatParentIssueSection(issue.fields),
          formatDescriptionSection(issue.fields),
          formatLabelsSection(issue.fields),
          formatFixVersionsSection(issue.fields),
          formatRelatedIssuesSection(issue.fields),
          formatCustomFieldsSection(issue.fields),
          formatCommentsSection(issue.fields),
          formatTimelineSection(issue.fields)>>
  IN JoinWith(FilterNonEmpty(sections), "\n") \o "\n---\n\n" \o formatIssueLink(issue)

formatIssue_TimelineBeforeComments(issue) ==
  LET sections ==
        <<formatIssueHeader(issue),
          formatBasicInformation(issue.fields),
          formatPeopleSection(issue.fields),
          formatParentIssueSection(issue.fields),
          formatDescriptionSection(issue.fields),
          formatLabelsSection(issue.fields),
          formatFixVersionsSection(issue.fields),
          formatRelatedIssuesSection(issue.fields),
          formatCustomFieldsSection(issue.fields),
          formatTimelineSection(issue.fields),
          formatCommentsSection(issue.fields),
          formatIssueLink(issue)>>
  IN JoinWith(FilterNonEmpty(sections), "\n---\n\n")

formatIssue(issue) ==
  LET sections ==
        <<formatIssueHeader(issue),
          formatBasicInformation(issue.fields),
          formatPeopleSection(issue.fields),
          formatParentIssueSection(issue.fields),
          formatDescriptionSection(issue.fields),
          formatLabelsSection(issue.fields),
          formatFixVersionsSection(issue.fields),
          formatRelatedIssuesSection(issue.fields),
          formatCustomFieldsSection(issue.fields),
          formatCommentsSection(issue.fields),
          formatTimelineSection(issue.fields),
          formatIssueLink(issue)>>
  IN JoinWith(FilterNonEmpty(sections), "\n---\n\n")

formatIssueSummary_EmptyWhenUnassigned(issue) ==
  LET assigneeName ==
        IF issue.fields.assignee.defined
        THEN issue.fields.assignee.value.displayName ELSE ""
  IN issue.key \o ": " \o issue.fields.summary \o " [" \o issue.fields.status.name
       \o "] - " \o assigneeName

formatIssueSummary(issue) ==
  LET assigneeName ==
        IF issue.fields.assignee.defined
        THEN issue.fields.assignee.value.displayName ELSE "Unassigned"
  IN issue.key \o ": " \o issue.fields.summary \o " [" \o issue.fields.status.name
       \o "] - " \o assigneeName

(***************************************************************************)
(* The analyze-ticket prompt (prompts/analyze-ticket.ts)                   *)
(***************************************************************************)
OrElse(text, fallback) == IF text # "" THEN text ELSE fallback

addBasicInformationSection(issueKey, fields) ==
  <<"**Key:** " \o issueKey,
    "**Type:** " \o OrElse(fields.issuetype.name, "Unknown"),
    "**Status:** " \o OrElse(fields.status.name, "Unknown")>>
  \o (IF fields.priority.name # "" THEN <<"**Priority:** " \o fields.priority.name>>
      ELSE <<>>)

addSummarySection(fields) == <<"", "**Summary:**", OrElse(fields.summary, "No summary")>>

addDescriptionSection(fields) ==
  IF ~Truthy(fields.description) THEN <<>>
  ELSE <<"", "**Description:**",
         IF fields.description.type = "string" THEN fields.description.text
         ELSE "[Complex formatted content]">>

addParentIssueSection(fields) ==
  IF ~fields.parent.defined THEN <<>>
  ELSE <<"", "**Parent Issue:** " \o fields.parent.value.key \o " - "
               \o fields.parent.value.fields.summary>>

addLabelsSection(fields) ==
  IF ~fields.labels.defined \/ Len(fields.labels.value) = 0 THEN <<>>
  ELSE <<"", "**Labels:** " \o JoinWith(fields.labels.value, ", ")>>

RECURSIVE AnalysisRelatedIssueLines(_)
AnalysisRelatedIssueLines(links) ==
  IF links = <<>> THEN <<>>
  ELSE LET link == Head(links)
       IN (IF link.outwardIssue.defined
           THEN <<"- " \o OrElse(link.type.outward, "relates to") \o ": "
                    \o link.outwardIssue.value.key \o " - "
                    \o link.outwardIssue.value.fields.summary>>
           ELSE <<>>)
          \o (IF link.inwardIssue.defined
              THEN <<"- " \o OrElse(link.type.inward, "relates to") \o ": "
                       \o link.inwardIssue.value.key \o " - "
                       \o link.inwardIssue.value.fields.summary>>
              ELSE <<>>)
          \o AnalysisRelatedIssueLines(Tail(links))

addRelatedIssuesSection(fields) ==
  IF ~fields.issuelinks.defined \/ Len(fields.issuelinks.value) = 0 THEN <<>>
  ELSE <<"", "**Related Issues:**">> \o AnalysisRelatedIssueLines(fields.issuelinks.value)

\* item?.value || item?.name || item
AnalysisItemValue(item) ==
  IF item.type = "object" /\ item.hasValue /\ Truthy(item.value) THEN item.value
  ELSE IF item.type = "object" /\ item.hasName /\ Truthy(item.name) THEN item.name
  ELSE item

extractFieldValue(value) ==
  IF value.type \in {"string", "number"} THEN JsText(ToText(value))
  ELSE IF value.type = "object" /\ value.hasValue THEN value.value
  ELSE IF value.type = "object" /\ value.hasName THEN value.name
  ELSE IF value.type = "array"
    THEN LET kept == FilterTruthy([k \in DOMAIN value.items |->
                                     AnalysisItemValue(value.items[k])])
         IN JsText(JoinWith([k \in DOMAIN kept |-> ToText(kept[k])], ", "))
  ELSE JsNull

RECURSIVE CustomFieldLines(_)
CustomFieldLines(custom) ==
  IF custom = <<>> THEN <<>>
  ELSE LET field == Head(custom)
           formattedValue == extractFieldValue(field.value)
       IN (IF Truthy(field.value) /\ Truthy(formattedValue)
           THEN <<"- " \o field.name \o ": " \o ToText(formattedValue)>>
           ELSE <<>>)
          \o CustomFieldLines(Tail(custom))

extractCustomFieldsText(fields) ==
  LET customFieldLines == CustomFieldLines(fields.custom)
  IN IF Len(customFieldLines) > 0
     THEN "**Custom Fields:**\n" \o JoinWith(customFieldLines, "\n")
     ELSE ""

addCustomFieldsSection(fields) ==
  LET customFieldsText == extractCustomFieldsText(fields)
  IN IF customFieldsText # "" THEN <<"", customFieldsText>> ELSE <<>>

addJiraLinkSection(issue) ==
  <<"", "**View in JIRA:** "
          \o OrElse(browseUrlOf(issue.self), "https://jira.example.com/browse/" \o issue.key)>>

formatIssueForAnalysis(issue) ==
  JoinWith(addBasicInformationSection(issue.key, issue.fields)
             \o addSummarySection(issue.fields)
             \o addDescriptionSection(issue.fields)
             \o addParentIssueSection(issue.fields)
             \o addLabelsSection(issue.fields)
             \o addRelatedIssuesSection(issue.fields)
             \o addCustomFieldsSection(issue.fields)
             \o addJiraLinkSection(issue), "\n")

\* formatIssueForAnalysis raises a TypeError on a body without 'fields'.
formatIssueForAnalysisThrows(issue) == issue.json = "null" \/ ~issue.isIssue

formatIssueForAnalysisError(issue) ==
  IF issue.json = "null"
  THEN ErrorObject("TypeError",
                   "Cannot destructure property 'fields' of 'issue' as it is null.")
  ELSE ErrorObject("TypeError",
                   "Cannot read properties of undefined (reading 'issuetype')")

AnalysisPreamble ==
  "Please analyze the following JIRA ticket and provide:\n\n"
  \o "1. **Complexity Assessment** (Low/Medium/High)\n"
  \o "   - Evaluate the technical complexity\n"
  \o "   - Consider scope and number of changes required\n\n"
  \o "2. **Potential Risks**\n"
  \o "   - Identify technical risks\n"
  \o "   - Consider dependencies and integration points\n"
  \o "   - Note any security or performance concerns\n\n"
  \o "3. **Dependencies**\n"
  \o "   - List technical dependencies (APIs, libraries, services)\n"
  \o "   - Identify related tickets or blockers\n"
  \o "   - Note any required infrastructure\n\n"
  \o "4. **Recommended Approach**\n"
  \o "   - Suggest implementation strategy\n"
  \o "   - Recommend breaking down into subtasks if needed\n"
  \o "   - Propose testing strategy\n\n"
  \o "---\n\n"
  \o "## Ticket Details\n\n"

createAnalysisPromptMessage(issueDetails) == AnalysisPreamble \o issueDetails \o "\n"

(***************************************************************************)
(* JiraClient.request, from the point where fetch settles                  *)
(***************************************************************************)
\* response.ok
ResponseOk(status) == status >= 200 /\ status <= 299

Resolved(issue) == [ok |-> TRUE, issue |-> issue]

Rejected(error) == [ok |-> FALSE, error |-> error]

\* fetch rejected with cause: the catch block of request.
requestAfterFetchRejected(cause) == Rejected(handleRequestError(cause))

JsonSyntaxError == ErrorObject("SyntaxError", "Unexpected token < in JSON at position 0")

requestAfterBody_NoStatusCode(status, statusText, body) ==
  IF ~ResponseOk(status)
    THEN Rejected(JiraApiException(
           handleErrorResponse(status, statusText, body).message, Undefined, Undefined))
  ELSE IF ~body.isJson THEN Rejected(handleRequestError(JsonSyntaxError))
  ELSE Resolved(body.data)

requestAfterBody_RawParseError(status, statusText, body) ==
  IF ~ResponseOk(status)
    THEN Rejected(handleRequestError(handleErrorResponse(status, statusText, body)))
  ELSE IF ~body.isJson THEN Rejected(JsonSyntaxError)
  ELSE Resolved(body.data)

\* fetch resolved and the body was read: handleErrorResponse when the response
\* is not ok, response.json() otherwise, both inside the try of request.
requestAfterBody(status, statusText, body) ==
  IF ~ResponseOk(status)
    THEN Rejected(handleRequestError(handleErrorResponse(status, statusText, body)))
  ELSE IF ~body.isJson THEN Rejected(handleRequestError(JsonSyntaxError))
  ELSE Resolved(body.data)

(***************************************************************************)
(* Tool handlers (tools/get-issue.ts, tools/analyze-ticket.ts)             *)
(***************************************************************************)
TextResponse(text) == [content |-> <<[type |-> "text", text |-> text]>>, isError |-> FALSE]

ErrorResponse(errorMessage) ==
  [content |-> <<[type |-> "text", text |-> "Error: " \o errorMessage]>>, isError |-> TRUE]

handleFetchError_Rewraps(error) ==
  ErrorResponse(
    IF IsError(error) THEN "Failed to retrieve issue: " \o error.message
    ELSE "An unexpected error occurred while retrieving the issue.")

handleFetchError_LeaksThrown(error) ==
  ErrorResponse(
    IF IsJiraApiException(error) THEN error.message
    ELSE IF IsError(error) THEN "Failed to retrieve issue: " \o error.message
    ELSE "Failed to retrieve issue: " \o error.thrown)

handleFetchError(error) ==
  ErrorResponse(
    IF IsJiraApiException(error) THEN error.message
    ELSE IF IsError(error) THEN "Failed to retrieve issue: " \o error.message
    ELSE "An unexpected error occurred while retrieving the issue.")

\* The get_issue handler from the point where getIssue settles: formatIssue
\* inside the try, handleFetchError in the catch.
getIssueHandlerAfter(settled) ==
  IF ~settled.ok THEN handleFetchError(settled.error)
  ELSE IF formatIssueThrows(settled.issue) THEN handleFetchError(formatIssueError(settled.issue))
  ELSE TextResponse(formatIssue(settled.issue))

PromptError(error) ==
  IF IsJiraApiException(error) THEN error.message
  ELSE IF IsError(error) THEN "Failed to analyze ticket: " \o error.message
  ELSE "An unexpected error occurred while preparing ticket analysis."

executeAnalyzeTicketPromptAfter_PartialContent(settled) ==
  IF ~settled.ok THEN [content |-> AnalysisPreamble, error |-> Some(PromptError(settled.error))]
  ELSE IF formatIssueForAnalysisThrows(settled.issue)
    THEN [content |-> AnalysisPreamble,
          error |-> Some(PromptError(formatIssueForAnalysisError(settled.issue)))]
  ELSE [content |-> createAnalysisPromptMessage(formatIssueForAnalysis(settled.issue)),
        error |-> Undefined]

\* executeAnalyzeTicketPrompt from the point where getIssue settles.
executeAnalyzeTicketPromptAfter(settled) ==
  IF ~settled.ok THEN [content |-> "", error |-> Some(PromptError(settled.error))]
  ELSE IF formatIssueForAnalysisThrows(settled.issue)
    THEN [content |-> "",
          error |-> Some(PromptError(formatIssueForAnalysisError(settled.issue)))]
  ELSE [content |-> createAnalysisPromptMessage(formatIssueForAnalysis(settled.issue)),
        error |-> Undefined]

analyzeTicketHandlerAfter_Rewraps(result) ==
  IF result.error.defined /\ result.error.value # ""
  THEN ErrorResponse("Failed to prepare analysis: " \o result.error.value)
  ELSE TextResponse(result.content)

\* The analyze_ticket handler after executeAnalyzeTicketPrompt returned:
\* if (result.error) is a test of truthiness.
analyzeTicketHandlerAfter(result) ==
  IF result.error.defined /\ result.error.value # ""
  THEN ErrorResponse(result.error.value)
  ELSE TextResponse(result.content)

(***************************************************************************)
(* Inputs: arguments, HTTP outcomes, response bodies                       *)
(***************************************************************************)
KeyPIX1 == <<"P","I","X","-","1">>

KeyAB12 == <<"A","B","-","1","2">>

InvalidKeys ==
  { <<"i","n","v","a","l","i","d">>,
    <<"1","2","3">>,
    <<"P","I","X">>,
    <<"P","I","X","-">>,
    <<"p","i","x","-","1">>,
    <<" ","P","I","X","-","1">>,
    <<"P","I","X","-","1","a">> }

Args(issueKey, includeComments) ==
  [issueKey |-> issueKey, includeComments |-> includeComments]

InvalidKeyArgs ==
  {Args(JsString(k), JsUndefined) : k \in InvalidKeys}
  \cup {Args(JsUndefined, JsUndefined), Args(JsNumber(123), JsUndefined)}

GetIssueArgs ==
  {Args(JsString(KeyPIX1), JsUndefined),
   Args(JsString(KeyPIX1), JsBoolean(FALSE)),
   Args(JsString(KeyAB12), JsBoolean(TRUE)),
   Args(JsString(KeyPIX1), JsString(<<"n","o">>))}
  \cup InvalidKeyArgs

AnalyzeTicketArgs ==
  {Args(JsString(KeyPIX1), JsUndefined)}
  \cup InvalidKeyArgs

\* What fetch rejects with when no response is received.
TransportCauses ==
  {ErrorObject("TypeError", "fetch failed: connect ECONNREFUSED 10.0.0.7:443"),
   ErrorObject("TypeError", "fetch failed: getaddrinfo ENOTFOUND jira.test")}

Statuses == {200, 400, 401, 403, 404, 429, 500, 502, 503, 504}

\* The reason phrase of a status; HTTP/2 responses carry none (statusText '').
ReasonPhrase(status) ==
  CASE status = 200 -> "OK"
    [] status = 400 -> "Bad Request"
    [] status = 401 -> "Unauthorized"
    [] status = 403 -> "Forbidden"
    [] status = 404 -> "Not Found"
    [] status = 429 -> "Too Many Requests"
    [] status = 500 -> "Internal Server Error"
    [] status = 502 -> "Bad Gateway"
    [] status = 503 -> "Service Unavailable"
    [] status = 504 -> "Gateway Timeout"

StatusTexts(status) == {"", ReasonPhrase(status)}

NoList == [kind |-> "absent"]

NoFields == [summary |-> ""]

NoSelf == [hasApiPath |-> FALSE, before |-> "", after |-> ""]

\* A JSON object that is no issue: {errorMessages?, errors?}.
ErrorObjectBody(messages, errors) ==
  [isJson |-> TRUE,
   data |-> [json |-> "object", errorMessages |-> messages, errors |-> errors,
             isIssue |-> FALSE, key |-> "", self |-> NoSelf, fields |-> NoFields]]

IssueBody(key, self, fields) ==
  [isJson |-> TRUE,
   data |-> [json |-> "object", errorMessages |-> NoList, errors |-> NoList,
             isIssue |-> TRUE, key |-> key, self |-> self, fields |-> fields]]

NotJsonBody == [isJson |-> FALSE, data |-> [json |-> "none"]]

NullBody == [isJson |-> TRUE, data |-> [json |-> "null"]]

MessagesBody ==
  ErrorObjectBody(
    [kind |-> "array",
     items |-> <<"Issue does not exist or you do not have permission to see it.",
                 "Login required">>],
    [kind |-> "object", entries |-> <<>>])

FieldErrorsBody ==
  ErrorObjectBody(
    [kind |-> "array", items |-> <<>>],
    [kind |-> "object",
     entries |-> << <<"fields", "Unknown field 'customfield_*'">>,
                    <<"expand", "Invalid value">> >>])

EmptyErrorsBody ==
  ErrorObjectBody([kind |-> "array", items |-> <<>>], [kind |-> "object", entries |-> <<>>])

SelfUrl(id) ==
  [hasApiPath |-> TRUE, before |-> "https://jira.test", after |-> id]

User(name) == [displayName |-> name]

LinkedIssue(key, summary) == [key |-> key, fields |-> [summary |-> summary]]

\* The issue of the formatter's tests: every optional section present.
FullIssue ==
  IssueBody("PROJ-1234", SelfUrl("12345"),
    [summary |-> "Test issue summary",
     description |-> JsText("Test description"),
     status |-> [name |-> "In Progress", statusCategory |-> [name |-> "Doing"]],
     issuetype |-> [name |-> "Story"],
     priority |-> [name |-> "High"],
     project |-> [key |-> "PIX", name |-> "Pix Project"],
     assignee |-> Some(User("John Doe")),
     reporter |-> User("Jane Doe"),
     parent |-> Some([key |-> "PROJ-1000",
                      fields |-> [summary |-> "Parent epic",
                                  issuetype |-> [name |-> "Epic"]]]),
     labels |-> Some(<<"backend", "bug">>),
     fixVersions |-> Some(<<[name |-> "v1.0.0", released |-> TRUE,
                             releaseDate |-> Some("2025-01-15")]>>),
     issuelinks |-> Some(<<[type |-> [inward |-> "is blocked by", outward |-> "blocks"],
                            outwardIssue |-> Some(LinkedIssue("PROJ-2000", "Blocking issue")),
                            inwardIssue |-> Undefined]>>),
     custom |-> <<[name |-> EQUIPIX,
                   value |-> JsArray(<<JsNamed(FALSE, JsNull, TRUE, JsText("Team A")),
                                       JsNamed(FALSE, JsNull, TRUE, JsText("Team B"))>>)],
                  [name |-> APPLI_PIX,
                   value |-> JsNamed(TRUE, JsText("Pix App"), FALSE, JsNull)]>>,
     comment |-> Some([total |-> 2,
                       comments |-> <<[author |-> User("Alice"),
                                       created |-> "2025-01-03T09:00:00.000Z",
                                       body |-> JsText("First comment")],
                                      [author |-> User("Bob"),
                                       created |-> "2025-01-04T09:00:00.000Z",
                                       body |-> JsText("Second comment")]>>]),
     created |-> "2025-01-01T10:00:00.000Z",
     updated |-> "2025-01-02T15:30:00.000Z"])

MinimalFields ==
  [summary |-> "Fix login",
   description |-> JsNull,
   status |-> [name |-> "In Progress", statusCategory |-> [name |-> "Doing"]],
   issuetype |-> [name |-> "Bug"],
   priority |-> [name |-> "Medium"],
   project |-> [key |-> "PROJ", name |-> "Project"],
   assignee |-> Undefined,
   reporter |-> User("Jane Doe"),
   parent |-> Undefined,
   labels |-> Some(<<"bug">>),
   fixVersions |-> Some(<<>>),
   issuelinks |-> Some(<<>>),
   custom |-> <<>>,
   comment |-> Undefined,
   created |-> "2025-01-01T10:00:00.000Z",
   updated |-> "2025-01-02T15:30:00.000Z"]

\* No assignee, one label, no optional section.
MinimalIssue == IssueBody("PROJ-1", SelfUrl("10001"), MinimalFields)

\* The team field set to a string instead of an array of options.
TeamAsTextIssue ==
  IssueBody("PROJ-2", SelfUrl("10002"),
            [MinimalFields EXCEPT !.custom = <<[name |-> EQUIPIX, value |-> JsText("Team A")]>>])

Bodies ==
  {NotJsonBody, NullBody, MessagesBody, FieldErrorsBody, EmptyErrorsBody,
   FullIssue, MinimalIssue, TeamAsTextIssue}

\* The test doubles of the tools' tests: getIssue as a stub that resolves with
\* an issue or rejects with a value of the test's choosing.
MockOutcomes ==
  {Resolved(MinimalIssue.data),
   Rejected(JiraApiException("Issue not found", Some(404), Undefined)),
   Rejected(ErrorObject("Error", "Network error")),
   Rejected(ThrownValue("Unknown error"))}

(***************************************************************************)
(* Configuration (config.ts)                                               *)
(***************************************************************************)
Chars_https == <<"h","t","t","p","s",":","/","/","j","i","r","a",".","t","e","s","t","/">>

Chars_email == <<"b","o","t","@","p","i","x",".","f","r">>

Chars_token == <<"s","e","c","r","e","t">>

Env(url, email, token) ==
  [JIRA_BASE_URL |-> url, JIRA_EMAIL |-> email, JIRA_API_TOKEN |-> token]

\* process.env at startup: complete, or with a variable missing or malformed.
Environments ==
  {Env(JsString(Chars_https), JsString(Chars_email), JsString(Chars_token)),
   Env(JsString(Chars_https), JsString(Chars_email), JsUndefined),
   Env(JsString(Chars_https), JsString(Chars_email), JsString(<<>>)),
   Env(JsString(<<"j","i","r","a">>), JsString(Chars_email), JsString(Chars_token)),
   Env(JsString(Chars_https), JsString(<<"b","o","t">>), JsString(Chars_token)),
   Env(JsUndefined, JsUndefined, JsUndefined)}

Letters == Range(UpperLetters) \cup Range(LowerLetters)

\* z.string().url(): new URL(s) succeeds, which needs a scheme before a ':'.
IsUrl(v) ==
  /\ v.type = "string"
  /\ \E c \in 2..Len(v.chars) :
       /\ v.chars[c] = ":"
       /\ \A k \in 1..(c - 1) : v.chars[k] \in Letters

\* z.string().email(): a local part, one '@', a domain with a dot.
IsEmail(v) ==
  /\ v.type = "string"
  /\ \E a \in 2..(Len(v.chars) - 3) :
       /\ v.chars[a] = "@"
       /\ \A k \in 1..Len(v.chars) : k # a => v.chars[k] # "@"
       /\ \E d \in (a + 2)..(Len(v.chars) - 1) : v.chars[d] = "."

\* z.string().min(1)
IsNonEmptyString(v) == v.type = "string" /\ Len(v.chars) >= 1

\* configSchema.safeParse(process.env...)
configSchema(env) ==
  IsUrl(env.JIRA_BASE_URL) /\ IsEmail(env.JIRA_EMAIL) /\ IsNonEmptyString(env.JIRA_API_TOKEN)

ConfigOf(env) ==
  [jiraBaseUrl |-> env.JIRA_BASE_URL.chars, jiraEmail |-> env.JIRA_EMAIL.chars,
   jiraApiToken |-> env.JIRA_API_TOKEN.chars]

(***************************************************************************)
(* State                                                                   *)
(*                                                                         *)
(* server is the process of index.ts:                                      *)
(*   pc        "start", "testFetch" and "testBody" (testConnection's       *)
(*             request pending), "serving" (transport connected),          *)
(*             "exited"                                                    *)
(*   client    the JiraClient once constructed                             *)
(*   requests  the URLs testConnection handed to fetch                     *)
(*   http      the status line of the server-info response                 *)
(*   failure   what startServer threw                                      *)
(*   exitCode  the code given to process.exit                              *)
(*                                                                         *)
(* inv[i] is one invocation of a tool handler by the call_tool request     *)
(* handler:                                                                *)
(*   pc            "idle", "awaitFetch" (fetch pending), "awaitBody"       *)
(*                 (response.json() pending), "awaitMock" (a stubbed       *)
(*                 getIssue pending), "rejected" (the handler's promise    *)
(*                 rejected), "returned" (it resolved with a response)     *)
(*   tool, args    the tool called and the argument object                 *)
(*   client        "JiraClient", or "mock" for a test double               *)
(*   getIssueCalls the calls of client.getIssue, in order                  *)
(*   requests      the URLs handed to fetch, in order                      *)
(*   http          the status line received, cause the transport failure  *)
(*   body          the body read                                           *)
(*   settled       how getIssue settled                                    *)
(*   prompt        the result of executeAnalyzeTicketPrompt                *)
(*   response      the value the handler returned                          *)
(***************************************************************************)
Slots == {1, 2}

\* fmt is a direct call of an exported or internal function of the formatter,
\* as the formatter's tests make it: fn the function, input its argument,
\* result what it returned or threw.
IdleFormatter ==
  [pc |-> "idle", fn |-> "none", input |-> JsNull, result |-> Undefined, calls |-> <<>>]

IdleInvocation ==
  [pc |-> "idle", tool |-> "none", args |-> Args(JsUndefined, JsUndefined),
   client |-> "none", getIssueCalls |-> <<>>, requests |-> <<>>,
   http |-> Undefined, cause |-> Undefined, body |-> Undefined,
   settled |-> Undefined, prompt |-> Undefined, response |-> Undefined]

Init ==
  /\ server = [pc |-> "start", client |-> Undefined, requests |-> <<>>,
               http |-> Undefined, connected |-> Undefined, failure |-> Undefined,
               exitCode |-> Undefined]
  /\ inv = [i \in Slots |-> IdleInvocation]
  /\ fmt = IdleFormatter

(***************************************************************************)
(* Startup (index.ts)                                                      *)
(***************************************************************************)
\* The Error loadConfig throws; the list of fields that follows is left out.
ConfigurationError ==
  ErrorObject("Error", "Configuration validation failed. Missing or invalid fields")

\* main's catch block: handleStartupError, then process.exit(1).
ExitOnStartupError(error) ==
  [server EXCEPT !.pc = "exited", !.failure = Some(error), !.exitCode = Some(1)]

\* loadConfig, new JiraClient(config) and the fetch of testConnection.
StartServer ==
  /\ server.pc = "start"
  /\ \E env \in Environments :
       server' =
         IF ~configSchema(env) THEN ExitOnStartupError(ConfigurationError)
         ELSE LET jiraClient == NewJiraClient(ConfigOf(env))
              IN [server EXCEPT
                    !.pc = "testFetch",
                    !.client = Some(jiraClient),
                    !.requests = Append(@, Concat(jiraClient.baseUrl)
                                             \o "/rest/api/3/serverInfo")]
  /\ UNCHANGED <<inv, fmt>>

testConnectionAfter_Wraps(settled) ==
  IF settled.ok THEN Resolved(TRUE)
  ELSE Rejected(ErrorObject("Error", "Connection test failed: " \o settled.error.message))

\* testConnection returns true once fetchServerInfo has resolved, and
\* rethrows what it threw.
testConnectionAfter(settled) == IF settled.ok THEN Resolved(TRUE) ELSE settled

AfterTestConnection_AlwaysServes(settled) ==
  [server EXCEPT !.pc = "serving", !.http = Undefined, !.connected = Some(TRUE)]

\* The rest of startServer once testConnection has settled: the tools are
\* created and the transport connected, or the error reaches main.
AfterTestConnection(settled) ==
  IF settled.ok
  THEN [server EXCEPT !.pc = "serving", !.http = Undefined,
                      !.connected = Some(settled.issue)]
  ELSE ExitOnStartupError(settled.error)

TestConnectionFetchRejects ==
  /\ server.pc = "testFetch"
  /\ \E cause \in TransportCauses :
       server' = AfterTestConnection(testConnectionAfter(requestAfterFetchRejected(cause)))
  /\ UNCHANGED <<inv, fmt>>

TestConnectionFetchResponds ==
  /\ server.pc = "testFetch"
  /\ \E status \in Statuses :
       \E statusText \in StatusTexts(status) :
         server' = [server EXCEPT
                      !.pc = "testBody",
                      !.http = Some([status |-> status, statusText |-> statusText])]
  /\ UNCHANGED <<inv, fmt>>

TestConnectionBodyArrives ==
  /\ server.pc = "testBody"
  /\ \E body \in Bodies :
       server' = AfterTestConnection(testConnectionAfter(
                   requestAfterBody(server.http.value.status,
                                    server.http.value.statusText, body)))
  /\ UNCHANGED <<inv, fmt>>

(***************************************************************************)
(* Tool invocations                                                        *)
(***************************************************************************)
\* client.getIssue(issueKey, fields, expand): the call, and for the JiraClient
\* the request it makes (request builds the URL and calls fetch).
CallGetIssue(slot, client, issueKey, fields, expand) ==
  [slot EXCEPT
     !.client = client,
     !.getIssueCalls = Append(@, [issueKey |-> issueKey, fields |-> fields,
                                   expand |-> expand]),
     !.requests = IF client = "JiraClient"
                  THEN Append(@, Concat(server.client.value.baseUrl)
                                   \o buildIssueEndpoint(issueKey, fields, expand))
                  ELSE @,
     !.pc = IF client = "JiraClient" THEN "awaitFetch" ELSE "awaitMock"]

getIssueHandlerStart_ValidatesAfterCall(slot, args, client) ==
  LET parsed == getIssueArgsSchema(args)
      options == buildFetchOptions(includeCommentsValue(args.includeComments))
      called == CallGetIssue([slot EXCEPT !.tool = "get_issue", !.args = args], client,
                             IF args.issueKey.type = "string"
                             THEN normalizeIssueKey(args.issueKey.chars) ELSE <<>>,
                             options.fields, options.expand)
  IN IF ~parsed.success THEN [called EXCEPT !.pc = "rejected"] ELSE called

\* The get_issue handler up to its first await: parse outside the try, then
\* normalizeIssueKey, buildFetchOptions and the call of getIssue.
getIssueHandlerStart(slot, args, client) ==
  LET parsed == getIssueArgsSchema(args)
      started == [slot EXCEPT !.tool = "get_issue", !.args = args, !.client = client]
  IN IF ~parsed.success THEN [started EXCEPT !.pc = "rejected"]
     ELSE LET options == buildFetchOptions(parsed.includeComments)
          IN CallGetIssue(started, client, normalizeIssueKey(parsed.issueKey),
                          options.fields, options.expand)

executeAnalyzeTicketPromptStart_NoTrim(slot, issueKey, client) ==
  CallGetIssue(slot, client, ToUpperCase(issueKey), ISSUE_FIELDS_TO_FETCH, <<>>)

\* executeAnalyzeTicketPrompt up to its await: the key is trimmed and
\* upper-cased and getIssue is called.
executeAnalyzeTicketPromptStart(slot, issueKey, client) ==
  CallGetIssue(slot, client, ToUpperCase(Trim(issueKey)), ISSUE_FIELDS_TO_FETCH, <<>>)

\* The analyze_ticket handler up to the first await of
\* executeAnalyzeTicketPrompt.
analyzeTicketHandlerStart(slot, args, client) ==
  LET parsed == analyzeTicketArgsSchema(args)
      started == [slot EXCEPT !.tool = "analyze_ticket", !.args = args, !.client = client]
  IN IF ~parsed.success THEN [started EXCEPT !.pc = "rejected"]
     ELSE executeAnalyzeTicketPromptStart(started, parsed.issueKey, client)

Settle_SharesLastResponse(slot, settled) ==
  LET others == {j \in DOMAIN inv : inv[j].response.defined}
      own == IF slot.tool = "get_issue" THEN getIssueHandlerAfter(settled)
             ELSE analyzeTicketHandlerAfter(executeAnalyzeTicketPromptAfter(settled))
  IN [slot EXCEPT
        !.pc = "returned", !.settled = Some(settled),
        !.prompt = IF slot.tool = "get_issue" THEN @
                   ELSE Some(executeAnalyzeTicketPromptAfter(settled)),
        !.response = IF others # {} THEN inv[CHOOSE j \in others : TRUE].response
                     ELSE Some(own)]

Settle_RetriesWhenUnavailable(slot, settled) ==
  IF /\ ~settled.ok
     /\ settled.error.name = "JiraApiException"
     /\ settled.error.statusCode \in {Some(429), Some(500), Some(502), Some(503)}
     /\ slot.requests # <<>>
  THEN [slot EXCEPT !.pc = "awaitFetch", !.requests = Append(@, Head(@)),
                    !.http = Undefined, !.body = Undefined]
  ELSE IF slot.tool = "get_issue"
  THEN [slot EXCEPT !.pc = "returned", !.settled = Some(settled),
                    !.response = Some(getIssueHandlerAfter(settled))]
  ELSE LET result == executeAnalyzeTicketPromptAfter(settled)
       IN [slot EXCEPT !.pc = "returned", !.settled = Some(settled),
                       !.prompt = Some(result),
                       !.response = Some(analyzeTicketHandlerAfter(result))]

Settle_RethrowsUnknown(slot, settled) ==
  IF ~settled.ok /\ ~IsError(settled.error)
  THEN [slot EXCEPT !.pc = "rejected", !.settled = Some(settled)]
  ELSE IF slot.tool = "get_issue"
  THEN [slot EXCEPT !.pc = "returned", !.settled = Some(settled),
                    !.response = Some(getIssueHandlerAfter(settled))]
  ELSE LET result == executeAnalyzeTicketPromptAfter(settled)
       IN [slot EXCEPT !.pc = "returned", !.settled = Some(settled),
                       !.prompt = Some(result),
                       !.response = Some(analyzeTicketHandlerAfter(result))]

\* The rest of the handler once getIssue has settled: everything is inside
\* the handler's try/catch, so the handler returns.
Settle(slot, settled) ==
  IF slot.tool = "get_issue"
  THEN [slot EXCEPT !.pc = "returned", !.settled = Some(settled),
                    !.response = Some(getIssueHandlerAfter(settled))]
  ELSE LET result == executeAnalyzeTicketPromptAfter(settled)
       IN [slot EXCEPT !.pc = "returned", !.settled = Some(settled),
                       !.prompt = Some(result),
                       !.response = Some(analyzeTicketHandlerAfter(result))]

Clients == {"JiraClient", "mock"}

InvokeGetIssue(i) ==
  /\ server.pc = "serving"
  /\ inv[i].pc = "idle"
  /\ \E args \in GetIssueArgs, client \in Clients :
       inv' = [inv EXCEPT ![i] = getIssueHandlerStart(inv[i], args, client)]
  /\ UNCHANGED <<server, fmt>>

InvokeAnalyzeTicket(i) ==
  /\ server.pc = "serving"
  /\ inv[i].pc = "idle"
  /\ \E args \in AnalyzeTicketArgs, client \in Clients :
       inv' = [inv EXCEPT ![i] = analyzeTicketHandlerStart(inv[i], args, client)]
  /\ UNCHANGED <<server, fmt>>

\* fetch rejects: no response was received.
FetchRejects(i) ==
  /\ inv[i].pc = "awaitFetch"
  /\ \E cause \in TransportCauses :
       inv' = [inv EXCEPT ![i] = Settle([inv[i] EXCEPT !.cause = Some(cause)],
                                         requestAfterFetchRejected(cause))]
  /\ UNCHANGED <<server, fmt>>

\* fetch resolves with the status line; the body is read next.
FetchResponds(i) ==
  /\ inv[i].pc = "awaitFetch"
  /\ \E status \in Statuses :
       \E statusText \in StatusTexts(status) :
         inv' = [inv EXCEPT ![i].pc = "awaitBody",
                            ![i].http = Some([status |-> status, statusText |-> statusText])]
  /\ UNCHANGED <<server, fmt>>

\* response.json() settles.
BodyArrives(i) ==
  /\ inv[i].pc = "awaitBody"
  /\ \E body \in Bodies :
       inv' = [inv EXCEPT ![i] =
                 Settle([inv[i] EXCEPT !.body = Some(body)],
                        requestAfterBody(inv[i].http.value.status,
                                         inv[i].http.value.statusText, body))]
  /\ UNCHANGED <<server, fmt>>

\* A stubbed getIssue settles.
MockSettles(i) ==
  /\ inv[i].pc = "awaitMock"
  /\ \E outcome \in MockOutcomes :
       inv' = [inv EXCEPT ![i] = Settle(inv[i], outcome)]
  /\ UNCHANGED <<server, fmt>>

\* The call_tool request handler hands the outcome to the protocol layer.
Complete(i) ==
  /\ inv[i].pc \in {"rejected", "returned"}
  /\ inv' = [inv EXCEPT ![i] = IdleInvocation]
  /\ UNCHANGED <<server, fmt>>

Next ==
  \/ StartServer
  \/ TestConnectionFetchRejects
  \/ TestConnectionFetchResponds
  \/ TestConnectionBodyArrives
  \/ \E i \in Slots :
       \/ InvokeGetIssue(i)
       \/ InvokeAnalyzeTicket(i)
       \/ FetchRejects(i)
       \/ FetchResponds(i)
       \/ BodyArrives(i)
       \/ MockSettles(i)
       \/ Complete(i)

Spec == Init /\ [][Next]_vars

(***************************************************************************)
(* Direct calls of the prompt (prompts/analyze-ticket.test.ts)             *)
(***************************************************************************)
PromptChars == {"p", "X", "-", "7", " "}

MaxKeyLen == 4

\* The keys executeAnalyzeTicketPrompt is called with: any string, the
\* function being exported and called without the tool's validation.
PromptKeys == UNION {[1..n -> PromptChars] : n \in 0..MaxKeyLen}

\* executeAnalyzeTicketPrompt({issueKey}, jiraClient) with a stubbed client.
CallExecuteAnalyzeTicketPrompt(i) ==
  /\ inv[i].pc = "idle"
  /\ \E issueKey \in PromptKeys :
       inv' = [inv EXCEPT ![i] =
                 executeAnalyzeTicketPromptStart(
                   [inv[i] EXCEPT !.tool = "executeAnalyzeTicketPrompt",
                                  !.args = Args(JsString(issueKey), JsUndefined)],
                   issueKey, "mock")]
  /\ UNCHANGED <<server, fmt>>

\* The stubbed getIssue settles and executeAnalyzeTicketPrompt returns.
PromptSettles(i) ==
  /\ inv[i].pc = "awaitMock"
  /\ \E outcome \in MockOutcomes :
       inv' = [inv EXCEPT ![i].pc = "returned",
                          ![i].settled = Some(outcome),
                          ![i].prompt = Some(executeAnalyzeTicketPromptAfter(outcome))]
  /\ UNCHANGED <<server, fmt>>

PromptNext ==
  \/ CallExecuteAnalyzeTicketPrompt(1)
  \/ PromptSettles(1)
  \/ Complete(1)

PromptSpec == Init /\ [][PromptNext]_vars

(***************************************************************************)
(* Direct calls of the formatter (lib/issue-formatter.test.ts)             *)
(***************************************************************************)
TextNode(text) == AdfNode("text", Some(text), Undefined)

Paragraph(children) == AdfNode("paragraph", Undefined, Some(children))

Doc(paragraphs) == AdfNode("doc", Undefined, Some(paragraphs))

\* The document of the test 'should handle complex ADF description'.
TwoParagraphDoc ==
  Doc(<<Paragraph(<<TextNode("First paragraph")>>),
        Paragraph(<<TextNode("Second paragraph")>>)>>)

\* The issues handed to formatIssue: createMockIssue with each optional part
\* overridden.
\*   description  null, the empty string, a string, a document
\*   custom       none; the team as an array of options; a field outside
\*                PIX_CUSTOM_FIELDS; an option with an empty value; the four
\*                fields of PIX_CUSTOM_FIELDS (the development field matching
\*                /repository=\{count=(\d+)/); the team as a string; the team
\*                as a single option
FormatterIssues ==
  LET ParentOptions ==
        {Undefined,
         Some([key |-> "PROJ-1000",
               fields |-> [summary |-> "Parent epic", issuetype |-> [name |-> "Epic"]]])}
      DescriptionOptions == {JsNull, JsText(""), JsText("Test description"), TwoParagraphDoc}
      LabelsOptions == {Some(<<>>), Some(<<"backend", "bug">>)}
      FixVersionsOptions ==
        {Some(<<>>),
         Some(<<[name |-> "v1.0.0", released |-> TRUE, releaseDate |-> Some("2025-01-15")],
                [name |-> "v2.0.0", released |-> FALSE, releaseDate |-> Undefined]>>)}
      IssueLinksOptions ==
        {Undefined,
         Some(<<>>),
         Some(<<[type |-> [inward |-> "is blocked by", outward |-> "blocks"],
                 outwardIssue |-> Some(LinkedIssue("PROJ-2000", "Blocking issue")),
                 inwardIssue |-> Undefined],
                [type |-> [inward |-> "is blocked by", outward |-> "blocks"],
                 outwardIssue |-> Undefined,
                 inwardIssue |-> Some(LinkedIssue("PROJ-3000", "Blocker issue"))]>>)}
      TeamOptions == JsArray(<<JsNamed(TRUE, JsText("Team A"), FALSE, JsNull),
                               JsNamed(TRUE, JsText("Team B"), FALSE, JsNull)>>)
      DevelopmentCount ==
        [type |-> "string", text |-> "{repository={count=3, dataType=repository}}",
         dev |-> [count |-> Some("3"), json |-> "none"]]
      CustomOptions ==
        {<<>>,
         <<[name |-> EQUIPIX, value |-> TeamOptions]>>,
         <<[name |-> "customfield_10999", value |-> JsText("Other")]>>,
         <<[name |-> APPLI_PIX, value |-> JsNamed(TRUE, JsText(""), FALSE, JsNull)]>>,
         <<[name |-> EQUIPIX, value |-> TeamOptions],
           [name |-> APPLI_PIX, value |-> JsNamed(TRUE, JsText("Pix App"), FALSE, JsNull)],
           [name |-> DEVELOPMENT, value |-> DevelopmentCount],
           [name |-> RESOLUTION_SEMESTER, value |-> JsText("2025-S1")]>>,
         <<[name |-> EQUIPIX, value |-> JsText("Team A")]>>,
         <<[name |-> EQUIPIX, value |-> JsNamed(TRUE, JsText("Team A"), FALSE, JsNull)]>>,
         <<[name |-> EQUIPIX,
            value |-> JsArray(<<JsNamed(FALSE, JsNull, TRUE, JsText("Team A")),
                                JsText("Team D")>>)],
           [name |-> APPLI_PIX, value |-> JsNamed(TRUE, JsText(""), FALSE, JsNull)],
           [name |-> "customfield_10999", value |-> JsText("Other")],
           [name |-> RESOLUTION_SEMESTER, value |-> JsNum(3)]>>,
         <<[name |-> APPLI_PIX, value |-> JsNum(0)],
           [name |-> DEVELOPMENT, value |-> JsText("no development data")],
           [name |-> RESOLUTION_SEMESTER, value |-> JsText("2025-S1")]>>}
      CommentOf(name, created, body) ==
        [author |-> User(name), created |-> created, body |-> body]
      CommentOptions ==
        {Undefined,
         Some([total |-> 0, comments |-> <<>>]),
         Some([total |-> 4,
               comments |->
                 <<CommentOf("Alice", "2025-01-01T10:00:00.000Z", JsText("First comment")),
                   CommentOf("Bob", "2025-01-02T15:30:00.000Z", JsText("Second comment")),
                   CommentOf("Carol", "2025-01-03T09:00:00.000Z", JsText("Third comment")),
                   CommentOf("Dave", "2025-01-04T09:00:00.000Z", TwoParagraphDoc)>>]),
         Some([total |-> 2,
               comments |->
                 <<CommentOf("Alice", "2025-01-01T10:00:00.000Z", JsText("First comment")),
                   CommentOf("Bob", "2025-01-02T15:30:00.000Z", JsText("Second comment"))>>]),
         Some([total |-> 12, comments |-> <<>>])}
  IN {IssueBody("PROJ-1234", SelfUrl("12345"),
                [FullIssue.data.fields EXCEPT
                   !.parent = parent, !.description = description, !.labels = labels,
                   !.fixVersions = fixVersions, !.issuelinks = issuelinks,
                   !.custom = custom, !.comment = comment]).data :
        parent \in ParentOptions, description \in DescriptionOptions,
        labels \in LabelsOptions, fixVersions \in FixVersionsOptions,
        issuelinks \in IssueLinksOptions, custom \in CustomOptions,
        comment \in CommentOptions}

\* What a call returned, or the error it threw.
Returned(value) == [threw |-> FALSE, value |-> value]

Threw(error) == [threw |-> TRUE, error |-> error]

FormatterCall(fn, input, result) ==
  [pc |-> "returned", fn |-> fn, input |-> input, result |-> Some(result), calls |-> <<>>]

formatIssueCall(issue) ==
  IF formatIssueThrows(issue) THEN Threw(formatIssueError(issue))
  ELSE Returned(formatIssue(issue))

\* Issues that differ in key, summary, status and assignee; an assignee that
\* is null or absent is Undefined.
SummaryIssues ==
  {IssueBody(key, SelfUrl("12345"),
             [FullIssue.data.fields EXCEPT
                !.summary = summary, !.status.name = status, !.assignee = assignee]).data :
     key \in {"PROJ-1234", "AB-1"}, summary \in {"Test issue summary", "Fix login"},
     status \in {"In Progress", "Done"},
     assignee \in {Undefined, Some(User("John Doe")), Some(User("Alice"))}}

\* The issues formatIssue is called on: those of FormatterIssues, and those
\* of SummaryIssues that keep the key and the summary of the tests.
FormatIssueInputs ==
  FormatterIssues
    \union {issue \in SummaryIssues :
              issue.key = "PROJ-1234" /\ issue.fields.summary = "Test issue summary"}

CallFormatIssueSummary ==
  /\ fmt.pc = "idle"
  /\ \E issue \in SummaryIssues :
       fmt' = FormatterCall("formatIssueSummary", issue, Returned(formatIssueSummary(issue)))
  /\ UNCHANGED <<server, inv>>

CallFormatIssue ==
  /\ fmt.pc = "idle"
  /\ \E issue \in FormatIssueInputs :
       fmt' = FormatterCall("formatIssue", issue, formatIssueCall(issue))
  /\ UNCHANGED <<server, inv>>

\* The elements of a multi-select: options read through 'value' or 'name',
\* strings, numbers, and elements that carry nothing.
ArrayElements ==
  {JsNamed(TRUE, JsText("Team A"), FALSE, JsNull),
   JsNamed(FALSE, JsNull, TRUE, JsText("Team B")),
   JsNamed(TRUE, JsText(""), TRUE, JsText("Team C")),
   JsText("Team D"),
   JsText(""),
   JsNum(7),
   JsNull}

MaxArrayLen == 3

ArrayValues ==
  {JsArray(items) : items \in UNION {[1..n -> ArrayElements] : n \in 0..MaxArrayLen}}

CallExtractArrayFieldValue ==
  /\ fmt.pc = "idle"
  /\ \E values \in ArrayValues :
       fmt' = FormatterCall("extractArrayFieldValue", values,
                            Returned(extractArrayFieldValue(values)))
  /\ UNCHANGED <<server, inv>>

AdfTexts == {"Hello", "world", ""}

MaxChildren == 2

Paragraphs ==
  {Paragraph(children) :
     children \in UNION {[1..n -> {TextNode(t) : t \in AdfTexts}] : n \in 0..MaxChildren}}

\* The documents made of doc -> paragraph -> text nodes.
AdfTrees ==
  {Doc(paragraphs) : paragraphs \in UNION {[1..n -> Paragraphs] : n \in 0..MaxChildren}}

CallExtractTextFromADF ==
  /\ fmt.pc = "idle"
  /\ \E adf \in AdfTrees :
       fmt' = FormatterCall("extractTextFromADF", adf, Returned(extractTextFromADF(adf)))
  /\ UNCHANGED <<server, inv>>

\* The caller takes the result; the formatter keeps nothing.
FormatterReturns ==
  /\ fmt.pc = "returned"
  /\ fmt' = IdleFormatter
  /\ UNCHANGED <<server, inv>>

FormatterNext ==
  \/ CallFormatIssue
  \/ CallFormatIssueSummary
  \/ CallExtractArrayFieldValue
  \/ CallExtractTextFromADF
  \/ FormatterReturns

FormatterSpec == Init /\ [][FormatterNext]_vars

(***************************************************************************)
(* The client's URLs, called directly                                      *)
(***************************************************************************)
\* Base URLs that configSchema accepts: with no, one and two trailing
\* slashes, with and without a context path.
BaseUrls ==
  LET host == SubSeq(Chars_https, 1, Len(Chars_https) - 1)
  IN {host \o tail : tail \in {<<>>, <<"/">>, <<"/", "/">>, <<"/", "j">>, <<"/", "j", "/">>,
                               <<"/", "j", "/", "/">>}}

\* request: const url = `${this.baseUrl}${endpoint}`
requestUrl(client, endpoint) == Concat(client.baseUrl) \o endpoint

\* new JiraClient(config), then the URL of a request to endpoint.
CallRequest ==
  /\ fmt.pc = "idle"
  /\ \E url \in BaseUrls, issueKey \in {KeyPIX1, KeyAB12},
        endpoint \in {"/rest/api/3/serverInfo", "/rest/api/3/issue/"} :
       LET config == [jiraBaseUrl |-> url, jiraEmail |-> Chars_email,
                      jiraApiToken |-> Chars_token]
           client == NewJiraClient(config)
           path == IF endpoint = "/rest/api/3/issue/"
                   THEN buildIssueEndpoint(issueKey, <<>>, <<>>) ELSE endpoint
       IN /\ configSchema(Env(JsString(url), JsString(Chars_email), JsString(Chars_token)))
          /\ fmt' = FormatterCall("request",
                                  [config |-> config, client |-> client, endpoint |-> path],
                                  Returned(requestUrl(client, path)))
  /\ UNCHANGED <<server, inv>>

\* The lists getIssue is given: none, empty, those of the tools, others.
MaxNames == 2

NameLists ==
  {Undefined, Some(STANDARD_ISSUE_FIELDS), Some(ISSUE_FIELDS_TO_FETCH),
   Some(buildFetchOptions(TRUE).fields), Some(buildFetchOptions(TRUE).expand)}
    \union {Some(names) :
              names \in UNION {[1..n -> {"summary", "comment", "customfield_*"}] :
                                 n \in 0..MaxNames}}

\* getIssue(issueKey, fields, expand) up to the endpoint it requests; an
\* argument left out is undefined and adds no parameter.
CallBuildIssueEndpoint ==
  /\ fmt.pc = "idle"
  /\ \E issueKey \in {KeyPIX1, KeyAB12}, fields \in NameLists, expand \in NameLists :
       fmt' = FormatterCall("buildIssueEndpoint",
                            [issueKey |-> issueKey, fields |-> fields, expand |-> expand],
                            Returned(buildIssueEndpoint(
                                       issueKey,
                                       IF fields.defined THEN fields.value ELSE <<>>,
                                       IF expand.defined THEN expand.value ELSE <<>>)))
  /\ UNCHANGED <<server, inv>>

\* The module's array STANDARD_ISSUE_FIELDS once the calls have been made.
CurrentStandardFields(calls) ==
  IF calls = <<>> THEN STANDARD_ISSUE_FIELDS ELSE calls[Len(calls)].standardFields

MaxInvocations == 6

\* buildFetchOptions as one get_issue invocation after another calls it;
\* fmt.calls keeps for each call its argument, what it returned and the
\* module's array after it.
CallBuildFetchOptions ==
  /\ fmt.pc = "idle"
  /\ Len(fmt.calls) < MaxInvocations
  /\ \E includeComments \in BOOLEAN :
       LET standardFields == CurrentStandardFields(fmt.calls)
           options == buildFetchOptionsOf(standardFields, includeComments)
       IN fmt' = [pc |-> "returned", fn |-> "buildFetchOptions",
                  input |-> [type |-> "boolean", bool |-> includeComments],
                  result |-> Some(Returned(options)),
                  calls |-> Append(fmt.calls,
                                   [includeComments |-> includeComments,
                                    options |-> options,
                                    standardFields |->
                                      standardFieldsAfter(standardFields,
                                                          includeComments)])]
  /\ UNCHANGED <<server, inv>>

\* The handler goes on with the options; the module keeps its array.
OptionsReturns ==
  /\ fmt.pc = "returned"
  /\ fmt' = [IdleFormatter EXCEPT !.calls = fmt.calls]
  /\ UNCHANGED <<server, inv>>

OptionsNext ==
  \/ CallBuildFetchOptions
  \/ OptionsReturns

OptionsSpec == Init /\ [][OptionsNext]_vars

ClientNext ==
  \/ CallRequest
  \/ CallBuildIssueEndpoint
  \/ FormatterReturns

ClientSpec == Init /\ [][ClientNext]_vars

\* A caller that keeps issue objects and formats them again and again.
\* fmt.calls is what it has seen: for each call the object passed, the
\* function, the value of the object before and after the call, the result.
RepeatIssues == <<FullIssue.data, MinimalIssue.data, TeamAsTextIssue.data>>

MaxCalls == 3

\* The value of an object once the calls have been made.
RECURSIVE ObjectValue(_, _)
ObjectValue(calls, object) ==
  IF calls = <<>> THEN RepeatIssues[object]
  ELSE IF calls[Len(calls)].object = object THEN calls[Len(calls)].after
  ELSE ObjectValue(SubSeq(calls, 1, Len(calls) - 1), object)

\* What formatIssue leaves of the object it was passed when it removes the
\* comments it shows from the array (splice in place of slice).
issueAfterFormatIssue_SplicesComments(issue) ==
  IF ~issue.fields.comment.defined THEN issue
  ELSE LET comments == issue.fields.comment.value.comments
       IN [issue EXCEPT !.fields.comment.value.comments =
             SubSeq(comments, 1, IF Len(comments) <= RECENT_COMMENTS_LIMIT THEN 0
                                 ELSE Len(comments) - RECENT_COMMENTS_LIMIT)]

\* formatIssue and the functions it calls assign to local arrays of lines
\* only: the object passed is left as it was.
issueAfterFormatIssue(issue) == issue

\* formatIssueSummary reads four properties and assigns none.
issueAfterFormatIssueSummary(issue) == issue

RepeatCall(object, fn, result, after) ==
  LET issue == ObjectValue(fmt.calls, object)
  IN fmt' = [pc |-> "returned", fn |-> fn, input |-> issue, result |-> Some(result),
             calls |-> Append(fmt.calls,
                              [object |-> object, fn |-> fn, before |-> issue,
                               result |-> result, after |-> after])]

RepeatFormatIssue ==
  /\ fmt.pc = "idle"
  /\ Len(fmt.calls) < MaxCalls
  /\ \E object \in DOMAIN RepeatIssues :
       LET issue == ObjectValue(fmt.calls, object)
       IN RepeatCall(object, "formatIssue", formatIssueCall(issue),
                     issueAfterFormatIssue(issue))
  /\ UNCHANGED <<server, inv>>

RepeatFormatIssueSummary ==
  /\ fmt.pc = "idle"
  /\ Len(fmt.calls) < MaxCalls
  /\ \E object \in DOMAIN RepeatIssues :
       LET issue == ObjectValue(fmt.calls, object)
       IN RepeatCall(object, "formatIssueSummary", Returned(formatIssueSummary(issue)),
                     issueAfterFormatIssueSummary(issue))
  /\ UNCHANGED <<server, inv>>

\* The caller takes the result and keeps its objects.
RepeatReturns ==
  /\ fmt.pc = "returned"
  /\ fmt' = [IdleFormatter EXCEPT !.calls = fmt.calls]
  /\ UNCHANGED <<server, inv>>

RepeatNext ==
  \/ RepeatFormatIssue
  \/ RepeatFormatIssueSummary
  \/ RepeatReturns

RepeatSpec == Init /\ [][RepeatNext]_vars

(***************************************************************************)
(* Properties                                                              *)
(***************************************************************************)
\* An issue key as the contract words it: capital letters, one hyphen, digits.
WellShapedIssueKey(v) ==
  /\ v.type = "string"
  /\ \E h \in 1..Len(v.chars) :
       /\ h > 1 /\ h < Len(v.chars)
       /\ v.chars[h] = "-"
       /\ \A k \in 1..Len(v.chars) :
            (k < h => v.chars[k] \in Range(UpperLetters)) /\ (k > h => v.chars[k] \in Digits)

ErrorText(response) == response.content[1].text

IsErrorResponseWith(response, text) ==
  /\ response.isError = TRUE
  /\ Len(response.content) = 1
  /\ response.content[1] = [type |-> "text", text |-> text]

\* C1: an invocation of get_issue or analyze_ticket whose issueKey is missing
\* or is not capital letters, a hyphen and digits is rejected, and no call of
\* the client's getIssue and no HTTP request is made for it.
C1_InvalidKeyRejectedBeforeClient ==
  \A i \in Slots :
    (inv[i].tool # "none" /\ ~WellShapedIssueKey(inv[i].args.issueKey)) =>
      /\ inv[i].pc = "rejected"
      /\ inv[i].getIssueCalls = <<>>
      /\ inv[i].requests = <<>>
      /\ ~inv[i].settled.defined

C1_Witness ==
  \E i, j \in Slots :
    /\ inv[i].tool = "get_issue" /\ inv[i].pc = "rejected"
    /\ inv[i].args.issueKey = JsString(<<"i","n","v","a","l","i","d">>)
    /\ inv[j].tool = "analyze_ticket" /\ inv[j].pc = "rejected"
    /\ inv[j].args.issueKey = JsUndefined

C2_ArgumentsValid(slot) ==
  /\ WellShapedIssueKey(slot.args.issueKey)
  /\ slot.tool = "get_issue" => slot.args.includeComments.type \in {"undefined", "boolean"}

C3_FixedMessage(status) ==
  CASE status = 401 -> "Authentication failed. Please check your JIRA email and API token."
    [] status = 403 -> "Access denied. You do not have permission to access this resource."
    [] status = 404 -> "The requested JIRA issue was not found."
    [] status = 429 -> "Rate limit exceeded. Please try again later."
    [] status = 500 -> "JIRA service is currently unavailable. Please try again later."
    [] status = 502 -> "JIRA service is currently unavailable. Please try again later."
    [] status = 503 -> "JIRA service is currently unavailable. Please try again later."

\* C3: for a response with status 401, 403, 404, 429, 500, 502 or 503 and any
\* body, getIssue rejects with a JiraApiException carrying that status and the
\* fixed message of the status; the body's message is not used.
C3_MappedStatusFixedMessage ==
  \A i \in Slots :
    (inv[i].client = "JiraClient" /\ inv[i].body.defined
       /\ inv[i].http.value.status \in {401, 403, 404, 429, 500, 502, 503}) =>
      /\ inv[i].settled.defined
      /\ ~inv[i].settled.value.ok
      /\ inv[i].settled.value.error.name = "JiraApiException"
      /\ inv[i].settled.value.error.statusCode = Some(inv[i].http.value.status)
      /\ inv[i].settled.value.error.message = C3_FixedMessage(inv[i].http.value.status)

C3_Witness ==
  \E i \in Slots :
    /\ inv[i].client = "JiraClient" /\ inv[i].settled.defined
    /\ inv[i].http.defined /\ inv[i].http.value.status = 404
    /\ inv[i].body.defined /\ inv[i].body.value = MessagesBody

\* The message a response body provides: the error messages joined by ', ',
\* else the field-level errors as 'field: message' joined by ', '.
C4_BodyMessage(body) ==
  CASE body = MessagesBody ->
         Some("Issue does not exist or you do not have permission to see it., Login required")
    [] body = FieldErrorsBody ->
         Some("fields: Unknown field 'customfield_*', expand: Invalid value")
    [] OTHER -> Undefined

C4_GenericMessage(status) ==
  CASE status = 400 -> "JIRA API request failed with status 400"
    [] status = 504 -> "JIRA API request failed with status 504"

\* The failed requests with a status that has no fixed message.
C4_Unmapped(slot) ==
  /\ slot.client = "JiraClient" /\ slot.body.defined
  /\ slot.http.value.status \in {400, 504}

C5_TypedFailure(error, http) ==
  /\ error.name = "JiraApiException"
  /\ error.statusCode.defined <=>
       (http.defined /\ ~(http.value.status >= 200 /\ http.value.status < 300))
  /\ error.statusCode.defined => error.statusCode.value = http.value.status

\* C5: every failure of getIssue or testConnection is a JiraApiException, with
\* a status code exactly when a response that is not 2xx was received, for
\* every body, bodies that are not JSON or of an unexpected shape included.
C5_EveryFailureIsTyped ==
  /\ \A i \in Slots :
       (inv[i].client = "JiraClient" /\ inv[i].settled.defined /\ ~inv[i].settled.value.ok) =>
         C5_TypedFailure(inv[i].settled.value.error, inv[i].http)
  /\ (server.client.defined /\ server.failure.defined) =>
       C5_TypedFailure(server.failure.value, server.http)

C5_Witness ==
  \E i, j \in Slots :
    /\ inv[i].client = "JiraClient" /\ inv[i].body.defined
    /\ inv[i].body.value = NotJsonBody /\ inv[i].http.value.status = 200
    /\ ~inv[i].settled.value.ok
    /\ inv[j].client = "JiraClient" /\ inv[j].body.defined
    /\ inv[j].body.value = NullBody /\ inv[j].http.value.status = 504
    /\ ~inv[j].settled.value.ok

\* The same for the connection test at startup.
C5_StartupWitness ==
  /\ server.pc = "exited" /\ server.client.defined
  /\ server.http.defined /\ server.http.value.status = 401

\* C6: when the transport fails without a response, getIssue rejects with a
\* JiraApiException whose message is the fixed connectivity message, whose
\* status code is absent and whose details hold the underlying cause.
C6_TransportFailure ==
  \A i \in Slots :
    inv[i].cause.defined =>
      /\ inv[i].settled.defined
      /\ ~inv[i].settled.value.ok
      /\ inv[i].settled.value.error =
           [name |-> "JiraApiException",
            message |->
              "Failed to connect to JIRA. Please check your network connection and JIRA URL.",
            statusCode |-> Undefined,
            details |-> Some(inv[i].cause.value)]

C6_Witness ==
  \E i \in Slots :
    /\ inv[i].cause.defined /\ inv[i].settled.defined
    /\ inv[i].cause.value.message = "fetch failed: getaddrinfo ENOTFOUND jira.test"

\* C7: two invocations of the same tool with the same issue key whose
\* transport failed, with whatever causes, return the same response.
C7_ResponseIndependentOfCause ==
  \A i, j \in Slots :
    (/\ inv[i].cause.defined /\ inv[j].cause.defined
     /\ inv[i].tool = inv[j].tool
     /\ inv[i].args.issueKey = inv[j].args.issueKey) =>
      /\ inv[i].response.defined /\ inv[j].response.defined
      /\ inv[i].response.value = inv[j].response.value
      /\ inv[i].response.value.isError = TRUE

C7_Witness ==
  \E i, j \in Slots :
    /\ inv[i].cause.defined /\ inv[j].cause.defined
    /\ inv[i].cause.value # inv[j].cause.value
    /\ inv[i].tool = "get_issue" /\ inv[j].tool = "get_issue"
    /\ inv[i].args.issueKey = inv[j].args.issueKey
    /\ inv[i].response.defined /\ inv[j].response.defined

\* C8: when the client rejects with a JiraApiException with message m, the
\* handler returns isError = true with the single text 'Error: ' followed by
\* m, executeAnalyzeTicketPrompt returns error = m, and a 404 response gives
\* the fixed not-found text.
C8_ApiExceptionVerbatim ==
  \A i \in Slots :
    (inv[i].settled.defined /\ ~inv[i].settled.value.ok
       /\ inv[i].settled.value.error.name = "JiraApiException") =>
      LET m == inv[i].settled.value.error.message
      IN /\ inv[i].response.defined
         /\ IsErrorResponseWith(inv[i].response.value, "Error: " \o m)
         /\ inv[i].tool = "analyze_ticket" =>
              inv[i].prompt.value = [content |-> "", error |-> Some(m)]
         /\ (inv[i].client = "JiraClient" /\ inv[i].http.defined
               /\ inv[i].http.value.status = 404) =>
              ErrorText(inv[i].response.value)
                = "Error: The requested JIRA issue was not found."

C8_Witness ==
  \E i, j \in Slots :
    /\ inv[i].tool = "get_issue" /\ inv[i].client = "JiraClient"
    /\ inv[i].http.defined /\ inv[i].http.value.status = 404 /\ inv[i].response.defined
    /\ inv[j].tool = "analyze_ticket" /\ inv[j].settled.defined
    /\ inv[j].settled.value = Rejected(JiraApiException("Issue not found", Some(404), Undefined))

\* What the fetch-and-format step of a settled invocation failed with, when it
\* is no JiraApiException: the value getIssue rejected with, or the error the
\* formatting of the issue threw.
C9_Failed(slot) ==
  /\ slot.settled.defined
  /\ IF ~slot.settled.value.ok THEN slot.settled.value.error.name # "JiraApiException"
     ELSE IF slot.tool = "get_issue" THEN formatIssueThrows(slot.settled.value.issue)
     ELSE formatIssueForAnalysisThrows(slot.settled.value.issue)

C9_Failure(slot) ==
  IF ~slot.settled.value.ok THEN slot.settled.value.error
  ELSE IF slot.tool = "get_issue" THEN formatIssueError(slot.settled.value.issue)
  ELSE formatIssueForAnalysisError(slot.settled.value.issue)

\* C9: when the fetch-and-format step fails with an Error with message m that
\* is no JiraApiException, get_issue returns 'Error: Failed to retrieve issue:
\* m' and executeAnalyzeTicketPrompt returns 'Failed to analyze ticket: m';
\* when the thrown value is no Error, each returns its fixed generic message,
\* in which the thrown value does not appear.
C9_OtherFailures ==
  \A i \in Slots :
    C9_Failed(inv[i]) =>
      LET e == C9_Failure(inv[i])
      IN IF e.name # ""
         THEN /\ inv[i].tool = "get_issue" =>
                   IsErrorResponseWith(inv[i].response.value,
                                       "Error: Failed to retrieve issue: " \o e.message)
              /\ inv[i].tool = "analyze_ticket" =>
                   inv[i].prompt.value.error = Some("Failed to analyze ticket: " \o e.message)
         ELSE /\ inv[i].tool = "get_issue" =>
                   IsErrorResponseWith(inv[i].response.value,
                     "Error: An unexpected error occurred while retrieving the issue.")
              /\ inv[i].tool = "analyze_ticket" =>
                   inv[i].prompt.value.error =
                     Some("An unexpected error occurred while preparing ticket analysis.")

C9_Witness ==
  \E i, j \in Slots :
    /\ inv[i].tool = "get_issue" /\ inv[i].settled.defined
    /\ inv[i].settled.value = Rejected(ThrownValue("Unknown error"))
    /\ inv[j].tool = "analyze_ticket" /\ inv[j].settled.defined
    /\ inv[j].settled.value = Rejected(ErrorObject("Error", "Network error"))
    /\ inv[j].prompt.defined

\* The formatting of an issue can fail too, with a TypeError.
C9_FormatFailureWitness ==
  \E i \in Slots :
    /\ inv[i].tool = "get_issue" /\ inv[i].client = "JiraClient"
    /\ inv[i].settled.defined /\ inv[i].settled.value.ok
    /\ inv[i].response.value.isError = TRUE

\* C10: in every result of executeAnalyzeTicketPrompt, error is set exactly
\* when content is the empty string, and a result without error holds the
\* whole preamble followed by the dump of the issue.
C10_NoPartialContent ==
  \A i \in Slots :
    inv[i].prompt.defined =>
      LET result == inv[i].prompt.value
      IN /\ result.error.defined <=> result.content = ""
         /\ ~result.error.defined =>
              /\ inv[i].settled.value.ok
              /\ result.content =
                   AnalysisPreamble \o formatIssueForAnalysis(inv[i].settled.value.issue) \o "\n"

C10_Witness ==
  \E i, j \in Slots :
    /\ inv[i].prompt.defined /\ inv[i].prompt.value.error.defined
    /\ inv[i].prompt.value.content = ""
    /\ inv[j].prompt.defined /\ ~inv[j].prompt.value.error.defined
    /\ inv[j].prompt.value.content # ""

\* C11: a tool invocation makes at most one call of getIssue and at most one
\* HTTP request, and once the request has an outcome (a response of any
\* status, or a transport failure) the invocation has returned its response
\* with that single request made.
C11_AtMostOneRequest ==
  \A i \in Slots :
    /\ Len(inv[i].getIssueCalls) <= 1
    /\ Len(inv[i].requests) <= 1
    /\ (inv[i].body.defined \/ inv[i].cause.defined) =>
         /\ inv[i].pc = "returned"
         /\ inv[i].response.defined
         /\ Len(inv[i].requests) = 1

C11_Witness ==
  \E i, j \in Slots :
    /\ inv[i].pc = "returned" /\ inv[i].http.defined /\ inv[i].http.value.status = 429
    /\ inv[j].pc = "returned" /\ inv[j].http.defined /\ inv[j].http.value.status = 503
    /\ Len(inv[i].requests) = 1 /\ Len(inv[j].requests) = 1

\* The state of a server that serves or has exited.
C12_State ==
  /\ server.pc = "serving" =>
       /\ server.client.defined
       /\ server.requests = <<"https://jira.test/rest/api/3/serverInfo">>
       /\ ~server.failure.defined /\ ~server.exitCode.defined
  /\ server.pc = "exited" <=> server.failure.defined
  /\ server.pc = "exited" <=> server.exitCode.defined
  /\ server.exitCode.defined => server.exitCode.value = 1
  /\ \A i \in Slots : inv[i].tool # "none" => server.pc = "serving"

\* The server starts serving from the connection test only, on a response
\* with a 2xx status, and a server that has exited stays so.
C12_Step ==
  /\ (server.pc # "serving" /\ server'.pc = "serving") =>
       /\ server.pc = "testBody"
       /\ server.http.value.status \in 200..299
       /\ server.client.defined
  /\ server.pc = "exited" => server' = server /\ inv' = inv
  /\ (server.pc = "start" /\ server'.pc = "exited") => ~server'.client.defined

\* C12: the server serves tool calls only after the configuration was loaded
\* and testConnection succeeded; when the configuration is invalid or the
\* connection test fails, the process exits with code 1 and no tool call is
\* ever handled.
C12_ServesOnlyAfterStartup == [](C12_State) /\ [][C12_Step]_vars

C12_Witness ==
  /\ server.pc = "exited" /\ server.client.defined
  /\ server.failure.value.name = "JiraApiException"
  /\ server.exitCode = Some(1)
  /\ \A i \in Slots : inv[i].tool = "none"

C12_ConfigurationWitness ==
  /\ server.pc = "exited" /\ ~server.client.defined /\ server.exitCode = Some(1)

C12_ServingWitness ==
  /\ server.pc = "serving"
  /\ \E i \in Slots : inv[i].pc = "returned"

\* How the client call of an invocation settled, from what the invocation's
\* own request met (for a stubbed client, from the stub's outcome).
C13_OwnOutcome(slot) ==
  IF slot.client # "JiraClient" THEN slot.settled.value
  ELSE IF slot.cause.defined THEN requestAfterFetchRejected(slot.cause.value)
  ELSE requestAfterBody(slot.http.value.status, slot.http.value.statusText, slot.body.value)

\* The response as a function of the invocation's tool and of that outcome.
C13_OwnResponse(slot) ==
  IF slot.tool = "get_issue" THEN getIssueHandlerAfter(C13_OwnOutcome(slot))
  ELSE analyzeTicketHandlerAfter(executeAnalyzeTicketPromptAfter(C13_OwnOutcome(slot)))

C13_State ==
  /\ \A i \in Slots :
       inv[i].response.defined => inv[i].response.value = C13_OwnResponse(inv[i])
  /\ \A i, j \in Slots :
       (/\ inv[i].tool = inv[j].tool /\ inv[i].args = inv[j].args
        /\ inv[i].client = inv[j].client /\ inv[i].http = inv[j].http
        /\ inv[i].cause = inv[j].cause /\ inv[i].body = inv[j].body
        /\ inv[i].settled = inv[j].settled) => inv[i] = inv[j]
  /\ server.client.defined =>
       server.client.value =
         [baseUrl |-> <<"h","t","t","p","s",":","/","/","j","i","r","a",".","t","e","s","t">>,
          authHeader |-> "Basic Ym90QHBpeC5mcjpzZWNyZXQ="]

C13_Step ==
  /\ server.client.defined => server'.client = server.client
  /\ \A i, j \in Slots : (i # j /\ inv'[i] # inv[i]) => inv'[j] = inv[j]

\* C13: with invocations in flight together, the response of each is the
\* function of its own arguments and of the outcome of its own request, a
\* step of one invocation leaves the others as they are, and the client's
\* base URL and auth header keep the values given at construction.
C13_NoSharedMutableState == [](C13_State) /\ [][C13_Step]_vars

C13_Witness ==
  \E i, j \in Slots :
    /\ i # j
    /\ inv[i].client = "JiraClient" /\ inv[j].client = "JiraClient"
    /\ inv[i].response.defined /\ inv[j].response.defined
    /\ inv[i].response.value.isError /\ ~inv[j].response.value.isError
    /\ inv[i].tool = inv[j].tool /\ inv[i].args = inv[j].args

\* C14: the field list get_issue passes to getIssue holds 'comment', and the
\* expand list holds 'renderedFields', exactly when includeComments is true or
\* omitted; when it is false there is no 'comment' and the expand list is
\* empty; the standard fields are requested in both cases.
C14_CommentsByDefault ==
  \A i \in Slots :
    (inv[i].tool = "get_issue" /\ inv[i].getIssueCalls # <<>>) =>
      LET call == inv[i].getIssueCalls[1]
          includeComments == inv[i].args.includeComments
          wanted == \/ includeComments = [type |-> "undefined"]
                    \/ includeComments = [type |-> "boolean", bool |-> TRUE]
      IN /\ wanted \/ includeComments = [type |-> "boolean", bool |-> FALSE]
         /\ ("comment" \in Range(call.fields)) <=> wanted
         /\ ("renderedFields" \in Range(call.expand)) <=> wanted
         /\ ~wanted => call.expand = <<>>
         /\ {"summary", "description", "status", "assignee", "reporter", "priority",
             "created", "updated", "labels", "fixVersions", "issuetype", "project",
             "parent", "issuelinks", "customfield_*"} \subseteq Range(call.fields)

C14_Witness ==
  \E i, j \in Slots :
    /\ inv[i].tool = "get_issue" /\ inv[i].getIssueCalls # <<>>
    /\ inv[i].args.includeComments = [type |-> "undefined"]
    /\ "comment" \in Range(inv[i].getIssueCalls[1].fields)
    /\ inv[j].tool = "get_issue" /\ inv[j].getIssueCalls # <<>>
    /\ inv[j].args.includeComments = [type |-> "boolean", bool |-> FALSE]
    /\ "comment" \notin Range(inv[j].getIssueCalls[1].fields)

\* Whether needle occurs in text.
Occurs(text, needle) ==
  \E k \in 1..(Len(text) - Len(needle) + 1) : SubSeq(text, k, k + Len(needle) - 1) = needle

\* A call of formatIssue that returned.
FormatIssueReturned == fmt.fn = "formatIssue" /\ ~fmt.result.value.threw

\* Whether an option object shows something: a non-empty 'value', or
\* without 'value' a non-empty 'name'.
C15_OptionShown(v) ==
  /\ v.type = "object"
  /\ IF v.hasValue THEN v.value.type = "string" /\ v.value.text # ""
     ELSE v.hasName /\ v.name.type = "string" /\ v.name.text # ""

\* Whether an array has an element with a display value: an option that
\* shows something or a non-empty string.
C15_ArrayShown(v) ==
  /\ v.type = "array"
  /\ \E k \in DOMAIN v.items :
       \/ C15_OptionShown(v.items[k])
       \/ v.items[k].type = "string" /\ v.items[k].text # ""

\* Whether a custom-field value has a display value: a non-empty string, a
\* number other than 0, an option that shows something, or an array with an
\* element that does.
C15_Extractable(v) ==
  \/ v.type = "string" /\ v.text # ""
  \/ v.type = "number" /\ v.num # 0
  \/ C15_OptionShown(v)
  \/ C15_ArrayShown(v)

\* The sections that appear whatever the issue.
C15_FixedSections(output) ==
  /\ SubSeq(output, 1, 28) = "# PROJ-1234: Test issue summ"
  /\ Occurs(output, "\n## Basic Information\n")
  /\ Occurs(output, "\n## People\n")
  /\ Occurs(output, "\n## Timeline\n")
  /\ Occurs(output, "\n**View in JIRA**: ")

\* The optional sections but Description and Custom Fields.
C15_OptionalSections(output, fields) ==
  /\ Occurs(output, "\n## Parent Issue\n") <=> fields.parent.defined
  /\ Occurs(output, "\n## Labels\n") <=>
       (fields.labels.defined /\ fields.labels.value # <<>>)
  /\ Occurs(output, "\n## Fix Versions\n") <=>
       (fields.fixVersions.defined /\ fields.fixVersions.value # <<>>)
  /\ Occurs(output, "\n## Related Issues\n") <=>
       (fields.issuelinks.defined /\ fields.issuelinks.value # <<>>)
  /\ Occurs(output, "\n## Comments\n") <=>
       (fields.comment.defined /\ fields.comment.value.total # 0)

\* C15, as stated: each section header of formatIssue appears exactly when its
\* data is present: Description iff the description is not null, Custom
\* Fields iff some custom field has an extractable value, the others as in
\* C15_OptionalSections; Header, Basic Information, People, Timeline and Link
\* always.
C15_HeaderIffDataPresent ==
  FormatIssueReturned =>
    LET output == fmt.result.value.value
        fields == fmt.input.fields
    IN /\ C15_FixedSections(output)
       /\ C15_OptionalSections(output, fields)
       /\ Occurs(output, "\n## Description\n") <=>
            fields.description.type \notin {"null", "undefined"}
       /\ Occurs(output, "\n## Pix Custom Fields\n") <=>
            \E k \in DOMAIN fields.custom : C15_Extractable(fields.custom[k].value)

\* The value of a field of the allow-list, null when the issue has none.
RECURSIVE C15_Field(_, _)
C15_Field(custom, id) ==
  IF custom = <<>> THEN [type |-> "null"]
  ELSE IF custom[1].name = id THEN custom[1].value
  ELSE C15_Field(Tail(custom), id)

\* Whether the team field holds something that is not an array (and is not
\* null, '' or 0).
C15_TeamMalformed(fields) ==
  LET team == C15_Field(fields.custom, "customfield_10253")
  IN /\ team.type \notin {"null", "undefined", "array"}
     /\ team.type = "string" => team.text # ""
     /\ team.type = "number" => team.num # 0

\* C15, amended: formatIssue throws when the team field customfield_10253
\* holds a non-array value, and otherwise returns a text in which Header,
\* Basic Information, People, Timeline and Link always appear, Description
\* appears iff the description is neither null nor the empty string, Custom
\* Fields appears iff the team field is an array with a display value, or
\* customfield_10117 or customfield_10257 has an extractable value, or
\* customfield_10000 carries development information (other custom fields
\* are not looked at), and the other optional sections appear as stated.
C15_HeaderIffDataShown ==
  fmt.fn = "formatIssue" =>
    LET fields == fmt.input.fields
        result == fmt.result.value
    IN /\ result.threw <=> C15_TeamMalformed(fields)
       /\ ~result.threw =>
            /\ C15_FixedSections(result.value)
            /\ C15_OptionalSections(result.value, fields)
            /\ Occurs(result.value, "\n## Description\n") <=>
                 /\ fields.description.type \notin {"null", "undefined"}
                 /\ fields.description # [type |-> "string", text |-> ""]
            /\ Occurs(result.value, "\n## Pix Custom Fields\n") <=>
                 \/ C15_ArrayShown(C15_Field(fields.custom, "customfield_10253"))
                 \/ C15_Extractable(C15_Field(fields.custom, "customfield_10117"))
                 \/ extractDevelopmentInfo(C15_Field(fields.custom, "customfield_10000"))
                      # [type |-> "null"]
                 \/ C15_Extractable(C15_Field(fields.custom, "customfield_10257"))

C15_Witness ==
  /\ FormatIssueReturned
  /\ fmt.input.fields.description = [type |-> "string", text |-> ""]
  /\ \E k \in DOMAIN fmt.input.fields.custom :
       fmt.input.fields.custom[k].name = "customfield_10999"
  /\ ~Occurs(fmt.result.value.value, "\n## Description\n")
  /\ ~Occurs(fmt.result.value.value, "\n## Pix Custom Fields\n")

\* C16: extracting the custom fields never raises, whatever the shape of the
\* values: formatIssue returns a text for every issue, one whose team field
\* customfield_10253 is not an array included.
C16_ExtractionNeverRaises ==
  fmt.fn = "formatIssue" => ~fmt.result.value.threw

\* The call the code fails on: the team field holds the string 'Team A' and
\* formatIssue throws the TypeError of values.map.
C16_TeamFieldRaises ==
  /\ fmt.fn = "formatIssue"
  /\ C15_Field(fmt.input.fields.custom, "customfield_10253")
       = [type |-> "string", text |-> "Team A"]
  /\ fmt.result.value.threw
  /\ fmt.result.value.error.name = "TypeError"

\* An element the array extractor is specified on: an option with only a
\* 'value' or only a 'name', a string, or a number.
C17_NamedOrScalar(item) ==
  \/ item.type = "object" /\ item.hasValue # item.hasName
  \/ item.type \in {"string", "number"}

\* The display value of such an element: the option's 'value' or 'name', the
\* string itself, the number written in decimal.
C17_DisplayValue(item) ==
  IF item.type = "object" THEN (IF item.hasValue THEN item.value.text ELSE item.name.text)
  ELSE IF item.type = "string" THEN item.text
  ELSE NumberText(item.num)

\* A call of the array extractor on an array of such elements.
C17_CallOnNamedOrScalars ==
  /\ fmt.fn = "extractArrayFieldValue"
  /\ \A k \in DOMAIN fmt.input.items : C17_NamedOrScalar(fmt.input.items[k])

\* C17: on an array of options and scalars (strings or numbers) the array
\* extractor returns the non-empty display values of the elements joined
\* with ', ' in input order, and absence (not '') exactly when there is none.
C17_JoinsDisplayValues ==
  C17_CallOnNamedOrScalars =>
    LET items == fmt.input.items
        shown == FilterNonEmpty([k \in DOMAIN items |-> C17_DisplayValue(items[k])])
    IN /\ ~fmt.result.value.threw
       /\ fmt.result.value.value =
            IF shown = <<>> THEN [type |-> "null"]
            ELSE [type |-> "string", text |-> JoinWith(shown, ", ")]

\* The call the code diverges on: the array [7] comes back as absence.
C17_NumberDropped ==
  /\ fmt.fn = "extractArrayFieldValue"
  /\ fmt.input.items = <<[type |-> "number", num |-> 7]>>
  /\ fmt.result.value = [threw |-> FALSE, value |-> [type |-> "null"]]

\* The same statement on arrays without numbers, where the code agrees.
C17_JoinsOptionsAndStrings ==
  (C17_CallOnNamedOrScalars
     /\ \A k \in DOMAIN fmt.input.items : fmt.input.items[k].type # "number")
    => C17_JoinsDisplayValues

\* The text of a paragraph as C18 words it: its text nodes concatenated with
\* no separator.
RECURSIVE C18_Concat(_)
C18_Concat(children) ==
  IF children = <<>> THEN ""
  ELSE (IF Head(children).text.defined THEN Head(children).text.value ELSE "")
         \o C18_Concat(Tail(children))

\* C18: on a document made of doc -> paragraph -> text nodes, text
\* extraction returns the text leaves in document order, the text nodes of
\* one paragraph concatenated with no separator and the (non-empty)
\* paragraphs separated by a blank line.
C18_ParagraphsConcatenated ==
  fmt.fn = "extractTextFromADF" =>
    LET paragraphs == fmt.input.content.value
        texts == [k \in DOMAIN paragraphs |-> C18_Concat(paragraphs[k].content.value)]
    IN fmt.result.value = [threw |-> FALSE, value |-> JoinWith(FilterNonEmpty(texts), "\n\n")]

\* The call the code diverges on: one paragraph holding the text nodes
\* 'Hello' and 'world' comes back with a blank line between them.
C18_BlankLineInsideParagraph ==
  /\ fmt.fn = "extractTextFromADF"
  /\ fmt.input = Doc(<<Paragraph(<<TextNode("Hello"), TextNode("world")>>)>>)
  /\ fmt.result.value = [threw |-> FALSE, value |-> "Hello\n\nworld"]

\* What the code does on these documents: every non-empty text leaf, in
\* document order, separated by a blank line.
C18_LeavesSeparatedByBlankLine ==
  fmt.fn = "extractTextFromADF" =>
    LET paragraphs == fmt.input.content.value
        leaves(p) == FilterNonEmpty([k \in DOMAIN p.content.value |->
                                       C18_Concat(<<p.content.value[k]>>)])
        texts == [k \in DOMAIN paragraphs |-> JoinWith(leaves(paragraphs[k]), "\n\n")]
    IN fmt.result.value = [threw |-> FALSE, value |-> JoinWith(FilterNonEmpty(texts), "\n\n")]

\* The positions at which needle occurs in text.
Positions(text, needle) ==
  {k \in 1..(Len(text) - Len(needle) + 1) : SubSeq(text, k, k + Len(needle) - 1) = needle}

\* The first lines of the twelve sections, in the order of C19.
SectionStarts ==
  <<"# PROJ-1234: ",
    "## Basic Information\n",
    "## People\n",
    "## Parent Issue\n",
    "## Description\n",
    "## Labels\n",
    "## Fix Versions\n",
    "## Related Issues\n",
    "## Pix Custom Fields\n",
    "## Comments\n",
    "## Timeline\n",
    "**View in JIRA**: ">>

\* The horizontal-rule delimiter.
Rule == "\n---\n\n"

SectionAt(text, p) ==
  LET rules == {q \in Positions(text, Rule) : q > p}
      stop == CHOOSE q \in rules : \A r \in rules : q <= r
  IN SubSeq(text, p, stop - 1)

\* The value a custom field shows: the string, the number in decimal, the
\* option's 'value' or 'name', the display values of an array's elements
\* joined with ', '.
C21_Shown(v) ==
  IF v.type = "array"
  THEN JoinWith(FilterNonEmpty([k \in DOMAIN v.items |-> C17_DisplayValue(v.items[k])]), ", ")
  ELSE C17_DisplayValue(v)

\* The lines C21 expects: for each allow-listed field, its friendly label and
\* what it shows, when it has an extractable value.
C21_Expected(custom) ==
  LET team == C15_Field(custom, "customfield_10253")
      appli == C15_Field(custom, "customfield_10117")
      development == C15_Field(custom, "customfield_10000")
      semester == C15_Field(custom, "customfield_10257")
  IN (IF C15_ArrayShown(team) THEN {"- **Equipe Pix**: " \o C21_Shown(team)} ELSE {})
     \union (IF C15_Extractable(appli) THEN {"- **Appli Pix**: " \o C21_Shown(appli)} ELSE {})
     \union (IF development.type = "string" /\ "dev" \in DOMAIN development
                  /\ development.dev.count.defined
             THEN {"- **Development**: " \o development.dev.count.value
                     \o " repository/repositories linked"}
             ELSE {})
     \union (IF C15_Extractable(semester)
             THEN {"- **Resolution Semester**: " \o C21_Shown(semester)} ELSE {})

C22_Opening(comment) == "\n**" \o comment.author.displayName \o "** ("

\* C22: when the comment total is not zero, the Comments section of the
\* formatIssue output shows the total, and after it the last min(3, n) of
\* the n comments in their original order, each opened by its author and
\* followed by its body; an earlier comment is not shown.
C22_LastThreeComments ==
  (FormatIssueReturned /\ fmt.input.fields.comment.defined
     /\ fmt.input.fields.comment.value.total # 0) =>
    LET output == fmt.result.value.value
        comment == fmt.input.fields.comment.value
        comments == comment.comments
        n == Len(comments)
        first == IF n <= 3 THEN 1 ELSE n - 2
        at == Positions(output, "## Comments\n")
    IN /\ Cardinality(at) = 1
       /\ \A p \in at :
            LET section == SectionAt(output, p)
                total == Positions(section,
                                   "\nTotal comments: " \o NumberText(comment.total) \o "\n")
                opening(k) == Positions(section, C22_Opening(comments[k]))
            IN /\ Cardinality(total) = 1
               /\ \A k \in 1..n :
                    IF k >= first
                    THEN /\ Cardinality(opening(k)) = 1
                         /\ \A q \in opening(k) : \A t \in total : t < q
                         /\ comments[k].body.type = "string" =>
                              \A q \in opening(k) :
                                \E r \in Positions(section,
                                                   "):\n" \o comments[k].body.text \o "\n") :
                                  /\ q < r
                                  /\ \A j \in (k + 1)..n : \A u \in opening(j) : r < u
                    ELSE /\ opening(k) = {}
                         /\ comments[k].body.type = "string" =>
                              ~Occurs(section, comments[k].body.text)
               /\ \A j, k \in first..n :
                    j < k => \A q \in opening(j) : \A r \in opening(k) : q < r
               /\ Cardinality(Positions(section, "\n**")) = n - first + 1

\* Four comments: the first is left out, the other three are shown in order.
C22_Witness ==
  /\ FormatIssueReturned
  /\ fmt.input.fields.comment.defined
  /\ Len(fmt.input.fields.comment.value.comments) = 4
  /\ ~Occurs(fmt.result.value.value, "**Alice**")
  /\ Occurs(fmt.result.value.value, "Total comments: 4\n\n### Recent Comments:\n\n**Bob** (")
  /\ Occurs(fmt.result.value.value, "Second comment\n\n**Carol** (")
  /\ Occurs(fmt.result.value.value, "Third comment\n\n**Dave** (")

\* Fewer than three comments: all of them are shown.
C22_TwoCommentsWitness ==
  /\ FormatIssueReturned
  /\ fmt.input.fields.comment.defined
  /\ Len(fmt.input.fields.comment.value.comments) = 2
  /\ Occurs(fmt.result.value.value, "Total comments: 2\n\n### Recent Comments:\n\n**Alice** (")
  /\ Occurs(fmt.result.value.value, "First comment\n\n**Bob** (")

\* The name C23 expects for the assignee: the display name of the assignee
\* when there is one, 'Unassigned' otherwise.
C23_Assignee(issue) ==
  IF issue.fields.assignee.defined THEN issue.fields.assignee.value.displayName
  ELSE "Unassigned"

\* C23: formatIssueSummary returns exactly
\* '{key}: {summary} [{status name}] - {assignee}', the assignee being the
\* display name or 'Unassigned' when the assignee is null or absent, and the
\* People section of formatIssue has the line '- **Assignee**: {assignee}'
\* with the same fallback.
C23_SummaryLine ==
  /\ fmt.fn = "formatIssueSummary" =>
       LET issue == fmt.input
       IN fmt.result.value =
            [threw |-> FALSE,
             value |-> JoinWith(<<issue.key, ": ", issue.fields.summary, " [",
                                  issue.fields.status.name, "] - ",
                                  C23_Assignee(issue)>>, "")]
  /\ FormatIssueReturned =>
       \A p \in Positions(fmt.result.value.value, "## People\n") :
         Occurs(SectionAt(fmt.result.value.value, p),
                "\n- **Assignee**: " \o C23_Assignee(fmt.input) \o "\n")

\* The summary of an issue without assignee.
C23_Witness ==
  /\ fmt.fn = "formatIssueSummary"
  /\ ~fmt.input.fields.assignee.defined
  /\ fmt.result.value = [threw |-> FALSE, value |-> "AB-1: Fix login [Done] - Unassigned"]

\* The People section of an issue without assignee.
C23_PeopleWitness ==
  /\ FormatIssueReturned
  /\ ~fmt.input.fields.assignee.defined
  /\ Occurs(fmt.result.value.value, "## People\n\n- **Assignee**: Unassigned\n")

\* The summary of the tests' issue.
C23_AssignedWitness ==
  /\ fmt.fn = "formatIssueSummary"
  /\ fmt.result.value =
       [threw |-> FALSE, value |-> "PROJ-1234: Test issue summary [In Progress] - John Doe"]

C25_Request(http, body) == requestAfterBody(http.status, http.statusText, body)

\* The state part of C25: once testConnection has resolved, it resolved with
\* true; once it has rejected, the error that reaches main is the exception
\* the request raised: for a response, the one raised on that status (same
\* message, same status code), and for a failed fetch the connectivity one.
C25_State ==
  /\ server.pc = "serving" => server.connected = Some(TRUE)
  /\ (server.pc = "exited" /\ server.client.defined) =>
       /\ ~server.connected.defined
       /\ IF server.http.defined
          THEN \E body \in Bodies :
                 /\ ~C25_Request(server.http.value, body).ok
                 /\ server.failure = Some(C25_Request(server.http.value, body).error)
          ELSE \E cause \in TransportCauses :
                 server.failure = Some(requestAfterFetchRejected(cause).error)

\* The step part of C25: testConnection resolves only on a response the
\* request succeeds on, and rejects only on a response it can fail on.
C25_Step ==
  server.pc = "testBody" =>
    /\ server'.pc = "serving" =>
         \E body \in Bodies : C25_Request(server.http.value, body).ok
    /\ server'.pc = "exited" =>
         \E body \in Bodies : ~C25_Request(server.http.value, body).ok

\* C25: testConnection returns true when the server-info request succeeds
\* and, when the request fails, rejects with the exception the request
\* raised, not wrapped in another error.
C25_TestConnectionRethrows == [](C25_State) /\ [][C25_Step]_vars

\* The server-info request answered 401: main receives the request's
\* exception with its status code.
C25_Witness ==
  /\ server.pc = "exited"
  /\ server.client.defined
  /\ server.http.defined /\ server.http.value.status = 401
  /\ server.failure.value.name = "JiraApiException"
  /\ server.failure.value.statusCode = Some(401)

\* The server-info request succeeded.
C25_ConnectedWitness ==
  /\ server.pc = "serving"
  /\ server.connected = Some(TRUE)

\* C26: the client strips any trailing slash from the configured base URL:
\* for every configured base URL the base URL used for requests does not end
\* with '/', and the request URL has exactly one '/' between the base URL and
\* the path (no '//' after the scheme).
C26_NoTrailingSlash ==
  fmt.fn = "request" =>
    LET baseUrl == fmt.input.client.baseUrl
        url == fmt.result.value.value
    IN /\ baseUrl[Len(baseUrl)] # "/"
       /\ ~Occurs(SubSeq(url, Len("https://") + 1, Len(url)), "//")

\* The call the code diverges on: the base URL 'https://jira.test//' keeps
\* a trailing slash and the request goes to a path that starts with '//'.
C26_SecondSlashKept ==
  /\ fmt.fn = "request"
  /\ Concat(fmt.input.config.jiraBaseUrl) = "https://jira.test//"
  /\ Concat(fmt.input.client.baseUrl) = "https://jira.test/"
  /\ fmt.result.value = [threw |-> FALSE, value |-> "https://jira.test//rest/api/3/serverInfo"]

\* What the code does: one trailing slash is removed, so that the statement
\* holds for the base URLs that end with at most one slash.
C26_OneSlashStripped ==
  fmt.fn = "request" =>
    LET configured == fmt.input.config.jiraBaseUrl
        baseUrl == fmt.input.client.baseUrl
    IN /\ baseUrl = IF configured[Len(configured)] = "/"
                    THEN SubSeq(configured, 1, Len(configured) - 1) ELSE configured
       /\ fmt.result.value.value = Concat(baseUrl) \o fmt.input.endpoint
       /\ (Len(configured) < 2 \/ configured[Len(configured) - 1] # "/")
            => C26_NoTrailingSlash

\* Whether out is key without its surrounding whitespace and with its
\* letters in upper case.
C27_TrimmedUpper(key, out) ==
  \E a \in 1..(Len(key) + 1) :
    \E b \in (a - 1)..Len(key) :
      /\ \A k \in 1..(a - 1) : key[k] \in WhiteSpace
      /\ \A k \in (b + 1)..Len(key) : key[k] \in WhiteSpace
      /\ a <= b => (key[a] \notin WhiteSpace /\ key[b] \notin WhiteSpace)
      /\ Len(out) = b - a + 1
      /\ \A k \in 1..Len(out) : out[k] = UpperOf(key[a + k - 1])

C28_BlankWitness ==
  \E i \in Slots :
    /\ inv[i].tool = "get_issue"
    /\ inv[i].args.issueKey = [type |-> "string", chars |-> <<" ", "P", "I", "X", "-", "1">>]
    /\ inv[i].pc = "rejected"

\* C29: no invocation modifies the shared standard field list: after any
\* sequence of calls with any mix of includeComments values, the list is
\* the fifteen standard names, a call with includeComments false gets a
\* field list without 'comment', and a call with includeComments true gets
\* one that has 'comment' exactly once.
C29_StandardFieldsUnchanged ==
  \A k \in DOMAIN fmt.calls :
    ("includeComments" \in DOMAIN fmt.calls[k]) =>
      LET call == fmt.calls[k]
          comments == {p \in DOMAIN call.options.fields : call.options.fields[p] = "comment"}
      IN /\ call.standardFields =
              <<"summary", "description", "status", "assignee", "reporter", "priority",
                "created", "updated", "labels", "fixVersions", "issuetype", "project",
                "parent", "issuelinks", "customfield_*">>
         /\ Cardinality(comments) = IF call.includeComments THEN 1 ELSE 0
         /\ Len(call.options.fields) = IF call.includeComments THEN 16 ELSE 15

\* Two invocations with comments, then one without and one with again.
C29_Witness ==
  /\ Len(fmt.calls) = 4
  /\ fmt.calls[1].includeComments /\ fmt.calls[2].includeComments
  /\ ~fmt.calls[3].includeComments /\ fmt.calls[4].includeComments
  /\ "comment" \notin Range(fmt.calls[3].options.fields)
  /\ fmt.calls[4].options.fields = Append(STANDARD_ISSUE_FIELDS, "comment")

\* A query string with its '%2C' read back as ','.
RECURSIVE C30_Decode(_)
C30_Decode(text) ==
  LET escapes == Positions(text, "%2C")
  IN IF escapes = {} THEN text
     ELSE LET p == CHOOSE q \in escapes : \A r \in escapes : q <= r
          IN SubSeq(text, 1, p - 1) \o "," \o C30_Decode(SubSeq(text, p + 3, Len(text)))

\* The lists of a call, absent counting as empty.
C30_Names(list) == IF list.defined THEN list.value ELSE <<>>

\* C30: the issue endpoint is /rest/api/3/issue/{key}, followed by nothing
\* (no '?') when the field list and the expand list are both absent or
\* empty, and otherwise by '?' and the parameters: 'fields', the names
\* joined with ',' in the given order, only if there are fields, and
\* 'expand', likewise, only if there are expansions.
C30_QueryOnlyIfNonEmpty ==
  fmt.fn = "buildIssueEndpoint" =>
    LET endpoint == fmt.result.value.value
        fields == C30_Names(fmt.input.fields)
        expand == C30_Names(fmt.input.expand)
        path == "/rest/api/3/issue/" \o Concat(fmt.input.issueKey)
        params == (IF fields # <<>> THEN <<"fields=" \o JoinWith(fields, ",")>> ELSE <<>>)
                    \o (IF expand # <<>> THEN <<"expand=" \o JoinWith(expand, ",")>>
                        ELSE <<>>)
    IN /\ ~fmt.result.value.threw
       /\ C30_Decode(endpoint) =
            IF params = <<>> THEN path ELSE path \o "?" \o JoinWith(params, "&")
       /\ Occurs(endpoint, "?") <=> (fields # <<>> \/ expand # <<>>)
       /\ Occurs(endpoint, "fields=") <=> fields # <<>>
       /\ Occurs(endpoint, "expand=") <=> expand # <<>>
       /\ ~Occurs(endpoint, ",")

\* No list at all: the bare endpoint.
C30_Witness ==
  /\ fmt.fn = "buildIssueEndpoint"
  /\ ~fmt.input.fields.defined
  /\ fmt.input.expand = Some(<<>>)
  /\ fmt.result.value = [threw |-> FALSE, value |-> "/rest/api/3/issue/PIX-1"]

\* Fields without expansions, and both.
C30_QueryWitness ==
  /\ fmt.fn = "buildIssueEndpoint"
  /\ fmt.input.fields = Some(<<"summary", "customfield_*">>)
  /\ fmt.input.expand = Some(<<"comment">>)
  /\ fmt.result.value.value
       = "/rest/api/3/issue/" \o Concat(fmt.input.issueKey)
           \o "?fields=summary%2Ccustomfield_*&expand=comment"

====
